---- MODULE Spec2Model ----
(***************************************************************************)
(* Model of the multisnake server (src/src/server.rs): the world (snake    *)
(* grid and food grid), the player registry and stream table, the          *)
(* handshake threads, the tick loop (read_players_input, move_snakes,      *)
(* send_data_to_players), the client -> server byte streams and the frames *)
(* the server writes to each connection.                                   *)
(***************************************************************************)
EXTENDS Integers, Sequences, FiniteSets, TLC

(* ------------------------------------------------------------------ *)
(* Program constants                                                   *)
(* ------------------------------------------------------------------ *)

MAGIC_NET_REQUEST_TO_PLAY == 0
MAGIC_NET_SERVER_STATUS == 1
MAGIC_NET_CHANGE_DIRECTION == 2
MAGIC_NET_DEATH == 3
MAGIC_NET_GAME_DATA == 4
MAGIC_NET_ERROR == 5
MAGIC_NET_JOINED_GAME == 6
MAGIC_NET_TOGGLE_FAST == 8
MAGIC_NET_EXIT == 9

\* world_size: the smallest world main.rs accepts (w < 20 || h < 20 is refused)
WorldW == 20
WorldH == 20
\* max_players and food_rate of the modelled server instance
max_players == 2
food_rate == 123
\* radius of the spawn clearance test
SpawnRadius == 7
ViewX == 24
ViewY == 14
\* largest value of a food field (u8)
MaxFood == 255
\* largest u16
MaxU16 == 65535
\* the greatest length a u8 length prefix holds
MaxU8 == 255

(* ------------------------------------------------------------------ *)
(* Bounds of the model                                                 *)
(* ------------------------------------------------------------------ *)

\* Spec: ticks the tick loop runs; frames and closes of all clients together
MaxTicks == 5
MaxFrames == 1
\* Spec and SpecDrain: ticks of the tick loop during which clients connect
JoinTicks == 1
\* SpecRace: ticks the tick loop runs
RaceTicks == 4
\* SpecDrain: ticks the tick loop runs; frames and closes of the client
DrainTicks == 2
DrainFrames == 2
\* SpecCrash: frames and closes of the clients
CrashFrames == 2
\* SpecJoin: ticks, and closes of the clients
JoinRaceTicks == 2
JoinFrames == 1
\* SpecStall: ticks, and stalls or closes of the client
StallTicks == 3
StallFrames == 1
MaxScore == 4096
StairLen == 15
MaxAdds == 2
CastTicks == 3
CastFrames == 1
TrimTicks == 2
TrimFrames == 1
LockLoops == 2
LockTicks == 1

\* connections (clients) that may connect
Clients == {1, 2, 3}

Left == 0
Up == 1
Right == 2
Down == 3
Directions == {Left, Up, Right, Down}

(* ------------------------------------------------------------------ *)
(* Small helpers                                                       *)
(* ------------------------------------------------------------------ *)

Min(a, b) == IF a < b THEN a ELSE b

RECURSIVE SumSeq(_)
SumSeq(s) == IF s = <<>> THEN 0 ELSE Head(s) + SumSeq(Tail(s))

\* ceil(n / d) for n >= 0, d > 0, as (n as f32 / d as f32).ceil() computes it
CeilDiv(n, d) == (n + d - 1) \div d

\* all orders in which a hash map may hand out the elements of S
Orders(S) == {f \in [1..Cardinality(S) -> S] : \A i, j \in 1..Cardinality(S) : f[i] = f[j] => i = j}

(* ------------------------------------------------------------------ *)
(* Direction                                                           *)
(* ------------------------------------------------------------------ *)

is_opposite_of(self, other) == (self + 2) % 4 = other

from_byte(byte) == IF byte \in {0, 1, 2} THEN byte ELSE Down

to_vector(self) ==
    CASE self = Left -> <<-1, 0>>
      [] self = Right -> <<1, 0>>
      [] self = Down -> <<0, 1>>
      [] self = Up -> <<0, -1>>

(* ------------------------------------------------------------------ *)
(* World indexing                                                      *)
(* ------------------------------------------------------------------ *)

sfield_index(c) == c[2] * WorldW + c[1]

ffield_index(c) == c[2] * WorldW * 2 + c[1]

sf_to_ff_index(c) ==
    << 0 + 2 * c[1] + (4 * c[2] + 0) * WorldW,
       1 + 2 * c[1] + (4 * c[2] + 0) * WorldW,
       0 + 2 * c[1] + (4 * c[2] + 2) * WorldW,
       1 + 2 * c[1] + (4 * c[2] + 2) * WorldW >>

ff_to_sf_index(c) == c[1] \div 2 + (c[2] \div 2) * WorldW

\* World::snake_parts and World::foods are vectors of W*H and 4*W*H fields that
\* start all zero; the model keeps each as the finite map of its non-zero
\* fields: At reads a field, Put writes one
Without(f, k) == [i \in (DOMAIN f) \ {k} |-> f[i]]
With(f, k, v) == [i \in (DOMAIN f) \cup {k} |-> IF i = k THEN v ELSE f[i]]
At(V, k) == IF k \in DOMAIN V THEN V[k] ELSE 0
Put(V, k, v) == IF v = 0 THEN Without(V, k) ELSE With(V, k, v)

(* ------------------------------------------------------------------ *)
(* calc_length and score_to_foods                                      *)
(* ------------------------------------------------------------------ *)

\* the least n in lo..hi with n * n >= score
RECURSIVE ceil_sqrt(_, _, _)
ceil_sqrt(lo, hi, score) ==
    IF lo >= hi THEN lo
    ELSE LET mid == (lo + hi) \div 2
         IN  IF mid * mid >= score THEN ceil_sqrt(lo, mid, score)
             ELSE ceil_sqrt(mid + 1, hi, score)

\* calc_length with a floor of 3
calc_length_clamped(score) ==
    IF ceil_sqrt(0, 256, score) < 3 THEN 3 ELSE ceil_sqrt(0, 256, score)

\* (score as f32).sqrt().ceil() as usize: the f32 square root of a u16 is
\* exact enough that its ceiling is the least n with n * n >= score
calc_length(score) == ceil_sqrt(0, 256, score)

\* a variant of the amount of one iteration that rounds down
food_amount_floor(n, left) == n \div left

\* (n as f32 / (count - i) as f32).ceil() as u8 for left = count - i: the
\* quotient rounded up, cut to what a u8 holds by the cast
food_amount(n, left) == Min(MaxU8, CeilDiv(n, left))

RECURSIVE score_to_foods_loop(_, _, _)
score_to_foods_loop(n, count, i) ==
    IF i >= count THEN <<>>
    ELSE LET amount == food_amount(n, count - i)
         IN  <<amount>> \o score_to_foods_loop(n - amount, count, i + 1)

score_to_foods_floor(score) ==
    [i \in 1..(calc_length(score) * 4) |-> score \div (calc_length(score) * 4)]

score_to_foods(score) == score_to_foods_loop(score, calc_length(score) * 4, 0)

(* ------------------------------------------------------------------ *)
(* Inputs: outcomes of the random number generator, client requests    *)
(* ------------------------------------------------------------------ *)

\* outcomes of the two rng.gen() calls of add_food (a food sub-cell)
FoodRng == { <<32, 10>>, <<34, 10>> }
\* outcomes of the rng calls of add_player / generate_snake_parts:
\* <<start cell of the search, direction>>
SpawnRng == { << <<15, 5>>, Right >>, << <<3, 5>>, Left >> }
\* the outcomes a scenario draws from: its own where it names them
SpawnRngOf(s) == IF "spawn_rng" \in DOMAIN s THEN s.spawn_rng ELSE SpawnRng
\* outcomes of the rng calls of the search check: every direction, starts
\* next to and on the cells a long snake leaves free
SearchRng ==
    { <<start, d>> : start \in { <<15, 12>>, <<14, 12>>, <<17, 12>>, <<15, 10>>,
                                <<0, 0>>, <<19, 19>> },
                     d \in {Left, Up, Right, Down} }
\* outcomes of thread_rng().gen::<usize>() % 4 for the tail food
QuadRng == {0, 3}
\* payloads of the first frame a client sends: REQUEST_TO_PLAY with a
\* nickname, SERVER_STATUS
Nickname(c) == <<64 + c>>
FirstPayloads(c) == { <<MAGIC_NET_REQUEST_TO_PLAY>> \o Nickname(c) }
\* first payloads of every kind handle_new_connection tells apart: a request
\* to play with a good nickname, with a nickname that is no UTF-8, with an
\* empty one, with one of 3 bytes that is 15 bytes long after escaping; a
\* status request; an empty payload; an opcode the server does not know
AnyFirstPayloads(c) ==
    FirstPayloads(c) \cup
    { <<MAGIC_NET_REQUEST_TO_PLAY, 255>>, <<MAGIC_NET_REQUEST_TO_PLAY>>,
      <<MAGIC_NET_REQUEST_TO_PLAY, 1, 1, 1>>, <<MAGIC_NET_SERVER_STATUS>>, <<>>, <<7>> }
\* payloads of the frames a client sends after its request
GamePayloads ==
    { <<MAGIC_NET_CHANGE_DIRECTION, Up>>, <<MAGIC_NET_CHANGE_DIRECTION, Left>>,
      <<MAGIC_NET_CHANGE_DIRECTION, Right>>,
      <<MAGIC_NET_TOGGLE_FAST>>, <<MAGIC_NET_EXIT>> }

\* the frames of SpecDrain: CHANGE_DIRECTION Up, Left and with a byte that
\* names no direction, TOGGLE_FAST, EXIT
DrainPayloads ==
    { <<MAGIC_NET_CHANGE_DIRECTION, Up>>, <<MAGIC_NET_CHANGE_DIRECTION, Left>>,
      <<MAGIC_NET_CHANGE_DIRECTION, 9>>,
      <<MAGIC_NET_TOGGLE_FAST>>, <<MAGIC_NET_EXIT>> }

(* ------------------------------------------------------------------ *)
(* State                                                               *)
(* ------------------------------------------------------------------ *)

VARIABLES
    players,         \* Server::players: id -> Player
    client_streams,  \* Server::client_streams: id -> connection
    snake_parts,     \* World::snake_parts: cell index -> id (0: empty)
    foods,           \* World::foods: sub-cell index -> amount
    tpc,             \* position of the main thread: "gen", "read", "move", "send", "panicked"
    ticks,           \* ticks completed
    hs,              \* position of each connection's handshake thread
    hs_id,           \* the id the handshake thread allocated
    wire,            \* bytes a client wrote that have not reached the server
    inbuf,           \* bytes that reached the server's socket and are unread
    closed,          \* the client closed its socket
    out,             \* frames the server wrote to each connection, oldest first
    sent_frames,     \* payloads each client wrote after its request, oldest first
    decoded,         \* payloads read_players_input decoded from each connection
    consumed,        \* number of bytes read_players_input took from each connection
    nframes,         \* frames sent by all clients together after their requests
    last,            \* what the last step of the main thread did (history)
    request,         \* payload of the first frame of each connection (history)
    stalled,         \* connections whose client has stopped reading: writes to them fail
    wfailed,         \* tick of the first failed write to each connection, -1: none (history)
    removed,         \* why the snake of each connection was removed, "no": it was not (history)
    scn              \* the bounds on the clients of the checked scenario

vars == << players, client_streams, snake_parts, foods, tpc, ticks,
           hs, hs_id, wire, inbuf, closed, out, sent_frames, decoded, consumed,
           nframes, last, request, stalled, wfailed, removed, scn >>

world_vars == << snake_parts, foods >>
net_vars == << wire, inbuf, closed, sent_frames, nframes >>
hist_vars == << request, stalled, wfailed, removed >>

(* ------------------------------------------------------------------ *)
(* World store                                                         *)
(* ------------------------------------------------------------------ *)

\* a variant of the test of add_food that takes a full sub-cell too
food_free_uncapped(pos, S, F) == At(S, ff_to_sf_index(pos)) = 0

\* the test of the loop of add_food: no snake on the field of the sub-cell
\* and fewer than 255 foods in it
food_free(pos, S, F) == At(S, ff_to_sf_index(pos)) = 0 /\ At(F, ffield_index(pos)) < MaxFood

\* the step of the loop of add_food to the neighbour sub-cell
food_next(pos) ==
    LET x == pos[1] + 1
    IN  IF x \div (WorldW * 2) = 1
        THEN <<0, (pos[2] + 1) % (WorldH * 2)>>
        ELSE <<x, pos[2]>>

\* the walk of add_food from pos to the first sub-cell that has no snake
\* and fewer than 255 foods; <<-1, -1>> when the walk never ends
RECURSIVE add_food_pos(_, _, _, _)
add_food_pos(pos, S, F, fuel) ==
    IF food_free(pos, S, F) THEN pos
    ELSE IF fuel = 0 THEN <<-1, -1>>
    ELSE add_food_pos(food_next(pos), S, F, fuel - 1)

\* Server::add_food with rng outcome pos; the food grid afterwards
add_food(pos, S, F) ==
    LET p == add_food_pos(pos, S, F, WorldW * WorldH * 4)
    IN  IF p = <<-1, -1>> THEN F
        ELSE Put(F, ffield_index(p), At(F, ffield_index(p)) + 1)

\* n calls of add_food, each with rng outcome pos
RECURSIVE add_foods(_, _, _, _)
add_foods(n, pos, S, F) ==
    IF n = 0 THEN F ELSE add_foods(n - 1, pos, S, add_food(pos, S, F))

RECURSIVE SumOver(_, _)
SumOver(I, F) ==
    IF I = {} THEN 0
    ELSE LET i == CHOOSE j \in I : TRUE IN F[i] + SumOver(I \ {i}, F)

\* the sum of all food amounts
TotalFood(F) == SumOver(DOMAIN F, F)

\* the four food sub-cells of a snake cell set to zero; their former sum
FoodAt(F, c) ==
    LET ff == sf_to_ff_index(c) IN At(F, ff[1]) + At(F, ff[2]) + At(F, ff[3]) + At(F, ff[4])
EatAt_kept(F, c) == F

EatAt(F, c) ==
    LET ff == sf_to_ff_index(c)
    IN  Put(Put(Put(Put(F, ff[1], 0), ff[2], 0), ff[3], 0), ff[4], 0)

(* ------------------------------------------------------------------ *)
(* Spawn planner                                                       *)
(* ------------------------------------------------------------------ *)

\* field k of snake_parts is one of the fields
\* ((part.0 + x + W) % W, (part.1 + y + H) % H), x, y in -7..=7
InRadius(part, k) ==
    /\ \E x \in (-SpawnRadius)..SpawnRadius : (part[1] + x + WorldW) % WorldW = k % WorldW
    /\ \E y \in (-SpawnRadius)..SpawnRadius : (part[2] + y + WorldH) % WorldH = k \div WorldW

\* a variant of the clearance test that looks around the head only
SpawnClear_head(S, ps) == \A k \in DOMAIN S : ~InRadius(ps[1], k)

\* the clearance test of generate_snake_parts: no field in the radius of any
\* of the three parts holds an id (the fields that hold one are DOMAIN S)
SpawnClear(S, ps) == \A i \in 1..3 : \A k \in DOMAIN S : ~InRadius(ps[i], k)

SpawnParts(head_pos, dv) ==
    << head_pos,
       << (head_pos[1] - dv[1] + WorldW) % WorldW, (head_pos[2] - dv[2] + WorldH) % WorldH >>,
       << (head_pos[1] - 2 * dv[1] + WorldW) % WorldW, (head_pos[2] - 2 * dv[2] + WorldH) % WorldH >> >>

\* the three parts eaten and stamped one after the other, as the loop does
RECURSIVE SpawnStamp(_, _, _, _, _, _)
SpawnStamp(ps, i, id, S, F, eaten) ==
    IF i > 3 THEN [ok |-> TRUE, parts |-> <<ps[3], ps[2], ps[1]>>, eaten |-> eaten, S |-> S, F |-> F]
    ELSE SpawnStamp(ps, i + 1, id, Put(S, sfield_index(ps[i]), id),
                    EatAt(F, ps[i]), eaten + FoodAt(F, ps[i]))

\* the head position of iteration n (0-based) of the search loop: the loop
\* steps to the next cell in raster order before it tests
SearchHead(start, n) ==
    LET k == (sfield_index(start) + n + 1) % (WorldW * WorldH)
    IN  <<k % WorldW, k \div WorldW>>

\* the loop of generate_snake_parts from iteration n on, one row of
\* iterations at a time: the first iteration whose three parts pass the
\* clearance test stamps them and returns
\* a variant of the number of iterations that stops before the start cell
SearchLength_short == WorldW * WorldH - 1

\* 0..(world_size.0 * world_size.1): the number of iterations of the search
SearchLength == WorldW * WorldH

RECURSIVE generate_snake_parts_loop(_, _, _, _, _, _)
generate_snake_parts_loop(n, start, dv, id, S, F) ==
    IF n >= SearchLength
    THEN [ok |-> FALSE, parts |-> <<>>, eaten |-> 0, S |-> S, F |-> F]
    ELSE LET row == n .. Min(n + WorldW, SearchLength) - 1
             good == {m \in row : SpawnClear(S, SpawnParts(SearchHead(start, m), dv))}
         IN  IF good # {}
             THEN SpawnStamp(SpawnParts(SearchHead(start, CHOOSE m \in good : \A j \in good : m <= j), dv),
                             1, id, S, F, 0)
             ELSE generate_snake_parts_loop(n + WorldW, start, dv, id, S, F)

\* Server::generate_snake_parts with rng outcome start
generate_snake_parts(direction, id, start, S, F) ==
    generate_snake_parts_loop(0, start, to_vector(direction), id, S, F)

(* ------------------------------------------------------------------ *)
(* Death handler                                                       *)
(* ------------------------------------------------------------------ *)

\* the first loop of remove_snake: part i (0-based) gets the next four amounts
RECURSIVE drop_foods(_, _, _, _, _, _)
drop_foods(i, n, parts, fds, S, F) ==
    IF i >= n THEN [S |-> S, F |-> F]
    ELSE LET c == parts[i + 1]
             ff == sf_to_ff_index(c)
         IN  drop_foods(i + 1, n, parts, fds,
                        Put(S, sfield_index(c), 0),
                        Put(Put(Put(Put(F, ff[1], fds[4 * i + 1]), ff[2], fds[4 * i + 2]),
                                ff[3], fds[4 * i + 3]), ff[4], fds[4 * i + 4]))

\* the last loop of remove_snake: the parts from snake_length on are cleared
RECURSIVE clear_parts(_, _, _, _)
clear_parts(parts, i, n, S) ==
    IF i > n THEN S ELSE clear_parts(parts, i + 1, n, Put(S, sfield_index(parts[i]), 0))

clear_leftover_skipped(parts, snake_length, S) == S

clear_leftover(parts, snake_length, S) == clear_parts(parts, snake_length + 1, Len(parts), S)

\* Server::remove_snake of a player that is in P, with rng outcome rpos for
\* the add_food calls
remove_snake(id, P, S, F, rpos) ==
    LET fds == score_to_foods(P[id].score)
        snake_length == calc_length(P[id].score)
        parts == P[id].parts
        n == Min(snake_length, Len(parts))
        w1 == drop_foods(0, n, parts, fds, S, F)
        left == SumSeq(SubSeq(fds, 4 * n + 1, Len(fds)))
        F2 == add_foods(left, rpos, w1.S, w1.F)
        S2 == clear_leftover(parts, snake_length, w1.S)
    IN  [P |-> Without(P, id), S |-> S2, F |-> F2]

\* the record the history keeps of one removal
DeathRec(id, conn, cause, P, F, r) ==
    [id |-> id, conn |-> conn, cause |-> cause, score |-> P[id].score,
     food_before |-> TotalFood(F), food_after |-> TotalFood(r.F),
     others_kept |-> \A j \in DOMAIN r.P : j \in DOMAIN P /\ r.P[j] = P[j]]

(* ------------------------------------------------------------------ *)
(* Frame codec, server side                                            *)
(* ------------------------------------------------------------------ *)

\* a variant of the client's encoder with the 2-byte prefix of the server
client_frame_wide(data) == <<(Len(data) \div 256) % 256, Len(data) % 256>> \o data

\* client-side send_to_stream: 1-byte length prefix
client_frame(data) == <<Len(data) % 256>> \o data

\* a variant in which a read of a socket with nothing to read times out
read_from_stream_timeout(buf, eof) ==
    IF buf = <<>>
    THEN [res |-> "err", bytes |-> <<>>, rest |-> <<>>]
    ELSE LET size == buf[1]
             r == Tail(buf)
         IN  IF Len(r) >= size
             THEN [res |-> "ok", bytes |-> SubSeq(r, 1, size), rest |-> SubSeq(r, size + 1, Len(r))]
             ELSE [res |-> "err", bytes |-> <<>>, rest |-> <<>>]

\* server-side read_from_stream on the unread bytes buf of a socket; eof: the
\* peer has closed and nothing more will arrive; blocking: the socket blocks
\* (handshake) or is non-blocking (drain). read_exact takes every byte it
\* gets before it fails.
read_from_stream(buf, eof) ==
    IF buf = <<>>
    THEN [res |-> IF eof THEN "err" ELSE "wouldblock", bytes |-> <<>>, rest |-> <<>>]
    ELSE LET size == buf[1]
             r == Tail(buf)
         IN  IF Len(r) >= size
             THEN [res |-> "ok", bytes |-> SubSeq(r, 1, size), rest |-> SubSeq(r, size + 1, Len(r))]
             ELSE [res |-> IF eof THEN "err" ELSE "wouldblock", bytes |-> <<>>, rest |-> <<>>]

\* the bytes the server's send_to_stream writes: data.len() as u16 in
\* big-endian order, then the data
send_to_stream(data) == <<(Len(data) \div 256) % 256, Len(data) % 256>> \o data

\* read_from_stream of the client and of the bot on the unread bytes buf of a
\* blocking socket whose peer writes nothing more
client_read_from_stream(buf) ==
    IF Len(buf) < 2
    THEN [res |-> "err", bytes |-> <<>>, rest |-> <<>>]
    ELSE LET size == buf[1] * 256 + buf[2]
             r == SubSeq(buf, 3, Len(buf))
         IN  IF Len(r) >= size
             THEN [res |-> "ok", bytes |-> SubSeq(r, 1, size), rest |-> SubSeq(r, size + 1, Len(r))]
             ELSE [res |-> "err", bytes |-> <<>>, rest |-> <<>>]

\* a frame the server wrote with send_to_stream
Frame(op, body) == [op |-> op, body |-> body]

(* ------------------------------------------------------------------ *)
(* Nickname validation of the handshake                                *)
(* ------------------------------------------------------------------ *)

\* std::str::from_utf8 on byte strings whose bytes are ASCII or 0xFF
from_utf8_ok(bytes) == \A i \in 1..Len(bytes) : bytes[i] < 128

HexDigit(d) == IF d < 10 THEN 48 + d ELSE 87 + d

\* char::escape_default of an ASCII character
escape_char(b) ==
    CASE b = 9 -> <<92, 116>>
      [] b = 13 -> <<92, 114>>
      [] b = 10 -> <<92, 110>>
      [] b \in {39, 34, 92} -> <<92, b>>
      [] b \in 32..126 /\ b \notin {39, 34, 92} -> <<b>>
      [] OTHER -> <<92, 117, 123>>
                  \o (IF b < 16 THEN <<HexDigit(b)>> ELSE <<HexDigit(b \div 16), HexDigit(b % 16)>>)
                  \o <<125>>

RECURSIVE escape_default(_)
escape_default(bytes) ==
    IF bytes = <<>> THEN <<>> ELSE escape_char(Head(bytes)) \o escape_default(Tail(bytes))

(* ------------------------------------------------------------------ *)
(* Initial state: Server::start after the Server value is built        *)
(* ------------------------------------------------------------------ *)

\* ((w * h * 4) as f64 / food_rate as f64) as u32
amount_of_foods == (WorldW * WorldH * 4) \div food_rate

NoLast == [op |-> "none", deaths |-> <<>>, claims |-> <<>>, crashed |-> <<>>, pre |-> <<>>,
           preS |-> <<>>, preF |-> <<>>, predec |-> <<>>, mid |-> <<>>, res |-> <<>>]

\* the state after the Server value is built, for the scenario bounds s
InitState(s, l) ==
    /\ scn = s
    /\ last = l
    /\ players = <<>>
    /\ client_streams = <<>>
    /\ snake_parts = <<>>
    /\ foods = <<>>
    /\ tpc = "gen"
    /\ ticks = 0
    /\ hs = [c \in Clients |-> "idle"]
    /\ hs_id = [c \in Clients |-> 0]
    /\ wire = [c \in Clients |-> <<>>]
    /\ inbuf = [c \in Clients |-> <<>>]
    /\ closed = [c \in Clients |-> FALSE]
    /\ out = [c \in Clients |-> <<>>]
    /\ sent_frames = [c \in Clients |-> <<>>]
    /\ decoded = [c \in Clients |-> <<>>]
    /\ consumed = [c \in Clients |-> 0]
    /\ nframes = 0
    /\ request = [c \in Clients |-> <<>>]
    /\ stalled = {}
    /\ wfailed = [c \in Clients |-> -1]
    /\ removed = [c \in Clients |-> "no"]

InitWith(s) == InitState(s, NoLast)

\* SpecLen: calc_length applied to every score a u16 holds
InitLen == \E score \in 0..MaxU16 : InitState([score |-> score], NoLast)

CalcLength ==
    /\ last.op = "none"
    /\ last' = [op |-> "calc_length", score |-> scn.score, length |-> calc_length(scn.score)]
    /\ UNCHANGED << players, client_streams, snake_parts, foods, tpc, ticks, hs, hs_id,
                    wire, inbuf, closed, out, sent_frames, decoded, consumed, nframes, scn >>
    /\ UNCHANGED hist_vars

\* scores of the score_to_foods check: every score up to MaxScore, and the
\* greatest scores and lengths a u16 gives
FoodScores ==
    (0 .. MaxScore) \cup {MaxU16, MaxU16 - 1, MaxU8 * MaxU8 + 1, MaxU8 * MaxU8, (MaxU16 + 1) \div 2}

\* SpecFoods: score_to_foods applied to a score, one iteration of its loop
\* in a step
InitFoods == \E score \in FoodScores : InitState([score |-> score], NoLast)

\* score_to_foods up to its loop: count and n are set, the vector is empty
ScoreToFoodsEnter ==
    /\ last.op = "none"
    /\ last' = [op |-> "score_to_foods", score |-> scn.score,
                count |-> calc_length(scn.score) * 4, i |-> 0, n |-> scn.score,
                foods |-> <<>>]
    /\ UNCHANGED << players, client_streams, snake_parts, foods, tpc, ticks, hs, hs_id,
                    wire, inbuf, closed, out, sent_frames, decoded, consumed, nframes, scn >>
    /\ UNCHANGED hist_vars

\* one iteration of the loop of score_to_foods
ScoreToFoodsIter ==
    /\ last.op = "score_to_foods"
    /\ last.i < last.count
    /\ LET amount == food_amount(last.n, last.count - last.i)
       IN  last' = [last EXCEPT !.n = @ - amount, !.i = @ + 1, !.foods = Append(@, amount)]
    /\ UNCHANGED << players, client_streams, snake_parts, foods, tpc, ticks, hs, hs_id,
                    wire, inbuf, closed, out, sent_frames, decoded, consumed, nframes, scn >>
    /\ UNCHANGED hist_vars

\* payloads of the codec check: length n, bytes that depend on their place
CodecPayload(n, seed) == [i \in 1..n |-> (seed + i) % 256]

\* lengths of the payloads a client sends and the server sends, the greatest
\* the prefix holds included
ClientLengths == {0, 1, 2, MaxU8}
ServerLengths == {0, 1, MaxU8 + 1, MaxU16}

\* SpecCodec: two payloads are framed by one side and written to a stream,
\* the other side reads the stream frame by frame
InitCodec ==
    \E side \in {"client", "server"} : \E seed \in {0, 200} :
    \E n1, n2 \in (IF side = "client" THEN ClientLengths ELSE ServerLengths) :
        InitState([side |-> side, payloads |-> <<CodecPayload(n1, seed), CodecPayload(n2, seed + 1)>>],
                  NoLast)

\* the sender frames both payloads and writes them one after the other
CodecSend ==
    /\ last.op = "none"
    /\ last' = [op |-> "sent", frames |-> <<>>,
                stream |-> IF scn.side = "client"
                           THEN client_frame(scn.payloads[1]) \o client_frame(scn.payloads[2])
                           ELSE send_to_stream(scn.payloads[1]) \o send_to_stream(scn.payloads[2])]
    /\ UNCHANGED << players, client_streams, snake_parts, foods, tpc, ticks, hs, hs_id,
                    wire, inbuf, closed, out, sent_frames, decoded, consumed, nframes, scn >>
    /\ UNCHANGED hist_vars

\* the receiver reads one frame
CodecRead ==
    /\ last.op \in {"sent", "read"}
    /\ Len(last.frames) < Len(scn.payloads)
    /\ LET r == IF scn.side = "client" THEN read_from_stream(last.stream, TRUE)
                ELSE client_read_from_stream(last.stream)
       IN  last' = [op |-> IF r.res = "ok" THEN "read" ELSE "failed",
                    frames |-> Append(last.frames, r.bytes), stream |-> r.rest]
    /\ UNCHANGED << players, client_streams, snake_parts, foods, tpc, ticks, hs, hs_id,
                    wire, inbuf, closed, out, sent_frames, decoded, consumed, nframes, scn >>
    /\ UNCHANGED hist_vars

\* Spec: two clients connect during the first ticks, JOINED_GAME is written
\* right after the registration, frames arrive whole
Init ==
    InitWith([max_ticks |-> MaxTicks, max_frames |-> MaxFrames, payloads |-> GamePayloads,
              clients |-> {1, 2}, join_ticks |-> JoinTicks, split |-> FALSE, race |-> FALSE, stall |-> FALSE, any_first |-> FALSE])

\* SpecRace: two clients connect at any time and send nothing, the handshake
\* threads run at their own pace
InitRace ==
    InitWith([max_ticks |-> RaceTicks, max_frames |-> 0, payloads |-> {},
              clients |-> {1, 2}, join_ticks |-> RaceTicks, split |-> FALSE, race |-> TRUE, stall |-> FALSE, any_first |-> FALSE])

\* SpecDrain: one client connects during the first ticks, the network
\* delivers its bytes in pieces
InitDrain ==
    InitWith([max_ticks |-> DrainTicks, max_frames |-> DrainFrames, payloads |-> DrainPayloads,
              clients |-> {1}, join_ticks |-> JoinTicks, split |-> TRUE, race |-> FALSE, stall |-> FALSE, any_first |-> FALSE])

\* the frames of SpecCrash: a turn and the fast-mode switch
CrashPayloads == { <<MAGIC_NET_CHANGE_DIRECTION, Up>>, <<MAGIC_NET_TOGGLE_FAST>> }

\* SpecCrash: as Spec, with two frames of the two kinds that bring one snake
\* across the path of the other
InitCrash ==
    InitWith([max_ticks |-> MaxTicks, max_frames |-> CrashFrames, payloads |-> CrashPayloads,
              clients |-> {1, 2}, join_ticks |-> JoinTicks, split |-> FALSE, race |-> FALSE,
              stall |-> FALSE, any_first |-> FALSE])

\* SpecJoin: three clients connect during the first ticks, at any phase of
\* a tick, with first frames of every kind; clients close
InitJoin ==
    InitWith([max_ticks |-> JoinRaceTicks, max_frames |-> JoinFrames, payloads |-> {},
              clients |-> {1, 2, 3}, join_ticks |-> JoinTicks, split |-> FALSE, race |-> FALSE,
              stall |-> FALSE, any_first |-> TRUE])

\* SpecStall: one client connects during the first ticks, sends nothing, and
\* stops reading or closes
InitStall ==
    InitWith([max_ticks |-> StallTicks, max_frames |-> StallFrames, payloads |-> {},
              clients |-> {1}, join_ticks |-> JoinTicks, split |-> FALSE, race |-> FALSE,
              stall |-> TRUE, any_first |-> FALSE])

\* a snake of k parts that turned at every step, right and down in turn,
\* tail first from the corner of the world
StairParts(k) == [i \in 1..k |-> << (i \div 2) % WorldW, ((i - 1) \div 2) % WorldH >>]

\* the record of a snake of k parts at rest: calc_length of its score is
\* k - 3, so that the tail trim of move_snakes leaves it k parts
StairPlayer(k) ==
    [nickname |-> escape_default(Nickname(1)),
     direction |-> IF k % 2 = 0 THEN Right ELSE Down,
     last_direction |-> IF k % 2 = 0 THEN Right ELSE Down,
     parts |-> StairParts(k), kills |-> 0, score |-> (k - 3) * (k - 3), fast_mode |-> FALSE]

\* the snake table of the registry P: every part of every snake holds its id
StampAll(P) ==
    [f \in UNION { {sfield_index(P[id].parts[i]) : i \in 1..Len(P[id].parts)} : id \in DOMAIN P } |->
        CHOOSE id \in DOMAIN P : \E i \in 1..Len(P[id].parts) : sfield_index(P[id].parts[i]) = f]

\* a game in progress for the scenario s: the snakes of the registry P are
\* in the world, snake id on connection id, the food is F, and the main
\* thread is about to run the phase phase of a tick
InitGame(s, P, F, phase) ==
    /\ scn = s
    /\ last = NoLast
    /\ players = P
    /\ client_streams = [id \in DOMAIN P |-> id]
    /\ snake_parts = StampAll(P)
    /\ foods = F
    /\ tpc = phase
    /\ ticks = 0
    /\ hs = [c \in Clients |-> IF c \in DOMAIN P THEN "joined" ELSE "idle"]
    /\ hs_id = [c \in Clients |-> IF c \in DOMAIN P THEN c ELSE 0]
    /\ wire = [c \in Clients |-> <<>>]
    /\ inbuf = [c \in Clients |-> <<>>]
    /\ closed = [c \in Clients |-> FALSE]
    /\ out = [c \in Clients |-> IF c \in DOMAIN P
                                THEN <<Frame(MAGIC_NET_JOINED_GAME, <<c, WorldW, WorldH>>)>>
                                ELSE <<>>]
    /\ sent_frames = [c \in Clients |-> <<>>]
    /\ decoded = [c \in Clients |-> <<>>]
    /\ consumed = [c \in Clients |-> 0]
    /\ nframes = 0
    /\ request = [c \in Clients |-> IF c \in DOMAIN P
                                    THEN <<MAGIC_NET_REQUEST_TO_PLAY>> \o Nickname(c)
                                    ELSE <<>>]
    /\ stalled = {}
    /\ wfailed = [c \in Clients |-> -1]
    /\ removed = [c \in Clients |-> "no"]

\* the registry with no snake, or with snake 1 alone
Alone(pl) == With(<<>>, 1, pl)

\* two snakes of three parts in the middle of a game: snake 1 goes right
\* along row 5 towards column 5, where snake 2 goes down with its head in
\* row y
CrossPlayers(y) ==
    With(With(<<>>, 1,
              [nickname |-> Nickname(1), direction |-> Right, last_direction |-> Right,
               parts |-> << <<1, 5>>, <<2, 5>>, <<3, 5>> >>,
               kills |-> 0, score |-> 0, fast_mode |-> FALSE]),
         2,
         [nickname |-> Nickname(2), direction |-> Down, last_direction |-> Down,
          parts |-> << <<5, y - 2>>, <<5, y - 1>>, <<5, y>> >>,
          kills |-> 0, score |-> 0, fast_mode |-> FALSE])

\* SpecCast: two snakes are in the game, on courses that cross or not, and
\* their clients may leave; the log of each connection keeps the shared part
\* of its GAME_DATA frames
InitCast ==
    \E y \in {5, 6, 12} : \E pos \in FoodRng :
        InitGame([max_ticks |-> CastTicks, max_frames |-> CastFrames,
                  payloads |-> {<<MAGIC_NET_EXIT>>}, clients |-> {1, 2},
                  join_ticks |-> JoinTicks, split |-> FALSE, race |-> FALSE, stall |-> FALSE,
                  any_first |-> FALSE, frames |-> "shared"],
                 CrossPlayers(y), add_foods(amount_of_foods, pos, <<>>, <<>>), "read")

\* SpecSpawn: one snake of 3, StairLen or StairLen + 1 parts is in the game
\* when two more clients ask to play; the outcome of the rng is the same for
\* both
InitSpawn ==
    \E k \in {3, StairLen, StairLen + 1} : \E rng \in SearchRng : \E pos \in FoodRng :
        InitGame([max_ticks |-> 0, max_frames |-> 0, payloads |-> {}, clients |-> {1, 2, 3},
                  join_ticks |-> JoinTicks, split |-> FALSE, race |-> FALSE, stall |-> FALSE,
                  any_first |-> FALSE, spawn_rng |-> {rng}],
                 Alone(StairPlayer(k)), add_foods(amount_of_foods, pos, <<>>, <<>>), "read")

\* outcomes of the rng calls of add_food in the placement check: sub-cells
\* at the end of the last row, under and beside the snake, in the open
WalkRng == { <<38, 39>>, <<39, 39>>, <<0, 0>>, <<39, 0>>, <<3, 1>>, <<10, 10>> }

\* the food of the placement check: the sub-cells of full hold 255, one
\* sub-cell in the open holds 254
FullFood(full) ==
    [f \in {ffield_index(p) : p \in full} \cup {ffield_index(<<10, 10>>)} |->
        IF f = ffield_index(<<10, 10>>) THEN MaxFood - 1 ELSE MaxFood]

\* SpecFail: one snake of 3 or of StairLen + 1 parts is in the game when
\* two more connections are made, with first frames of every kind, whole
\* or cut short
InitFail ==
    \E k \in {3, StairLen + 1} : \E rng \in { << <<15, 12>>, Right >>, << <<0, 0>>, Up >> } :
    \E pos \in FoodRng :
        InitGame([max_ticks |-> 0, max_frames |-> 0, payloads |-> {}, clients |-> {1, 2, 3},
                  join_ticks |-> JoinTicks, split |-> FALSE, race |-> FALSE, stall |-> FALSE,
                  any_first |-> TRUE, spawn_rng |-> {rng}],
                 Alone(StairPlayer(k)), add_foods(amount_of_foods, pos, <<>>, <<>>), "read")

\* the food table with the amounts am[i] in the sub-cells ps[i]
FoodOf(ps, am) ==
    [f \in {ffield_index(ps[i]) : i \in 1..Len(ps)} |->
        am[CHOOSE i \in 1..Len(ps) : ffield_index(ps[i]) = f]]

\* food tables of the view check: the generated food in one sub-cell, full
\* sub-cells, the four sub-cells of one field with different amounts, and
\* food in the corners of the world
ViewFoods ==
    { add_foods(amount_of_foods, pos, <<>>, <<>>) : pos \in FoodRng }
        \cup { FullFood(full) : full \in { {}, {<<38, 39>>, <<39, 39>>} } }
        \cup { FoodOf(<< <<20, 20>>, <<21, 20>>, <<20, 21>>, <<21, 21>> >>, << 1, 2, 3, MaxFood >>),
               FoodOf(<< <<21, 20>>, <<20, 21>> >>, << 7, 6 >>),
               FoodOf(<< <<21, 21>> >>, << amount_of_foods >>),
               FoodOf(<< <<0, 0>>, <<39, 39>>, <<39, 0>>, <<0, 39>>, <<20, 13>> >>, << 1, 2, 3, 4, 3 >>),
               FoodOf(<< <<14, 25>>, <<15, 24>>, <<30, 30>> >>, << 5, 5, 3 >>),
               FoodOf(<< <<12, 9>>, <<9, 12>>, <<12, 12>>, <<9, 9>> >>, << 1, 1, 2, 9 >>),
               FoodOf(<< <<8, 10>>, <<39, 20>> >>, << MaxFood, 1 >>),
               <<>> }

\* SpecView: one or two snakes are in the game with food around them in
\* fields that hold no snake, and the main thread is about to broadcast; the
\* log of each connection keeps every byte of its GAME_DATA frame
InitView ==
    \E P \in { Alone(StairPlayer(3)), Alone(StairPlayer(StairLen)),
                CrossPlayers(5), CrossPlayers(6), CrossPlayers(12), CrossPlayers(19) } :
    \E F \in ViewFoods :
        /\ \A f \in DOMAIN F :
              ff_to_sf_index(<< f % (2 * WorldW), f \div (2 * WorldW) >>) \notin DOMAIN StampAll(P)
        /\ InitGame([max_ticks |-> 1, max_frames |-> 0, payloads |-> {}, clients |-> {1, 2},
                     join_ticks |-> JoinTicks, split |-> FALSE, race |-> FALSE, stall |-> FALSE,
                     any_first |-> FALSE, frames |-> "all"],
                    P, F, "send")

\* scores of the tail trim check: with and without a square below them
TrimScores == {0, 1, 2, 5, 10, amount_of_foods}

\* SpecTrim: one snake is in the game that has the score sc and between 3
\* parts and the 4 + calc_length(sc) parts a tick leaves it at most; the
\* rest of the generated food lies in one sub-cell; its client may send
\* TOGGLE_FAST
InitTrim ==
    \E sc \in TrimScores : \E k \in 3..(4 + calc_length(sc)) :
        InitGame([max_ticks |-> TrimTicks, max_frames |-> TrimFrames,
                  payloads |-> {<<MAGIC_NET_TOGGLE_FAST>>}, clients |-> {1},
                  join_ticks |-> JoinTicks, split |-> FALSE, race |-> FALSE, stall |-> FALSE,
                  any_first |-> FALSE],
                 Alone([StairPlayer(k) EXCEPT !.score = sc]),
                 IF sc = amount_of_foods THEN <<>>
                 ELSE FoodOf(<< <<30, 30>> >>, << amount_of_foods - sc >>),
                 "read")

\* SpecAddFood: add_food is called MaxAdds times in a world with no snake or
\* one snake of 3 parts at the corner, and with full sub-cells at the end of
\* the last row and behind the snake; one iteration of its loop in a step
InitAddFood ==
    \E P \in {<<>>, Alone(StairPlayer(3))} :
    \E full \in { {}, {<<38, 39>>}, {<<38, 39>>, <<39, 39>>}, {<<39, 39>>, <<4, 0>>},
                  {<<38, 39>>, <<39, 39>>, <<4, 0>>} } :
        InitGame([max_adds |-> MaxAdds], P, FullFood(full), "read")

\* add_food up to its loop: the rng gives the sub-cell pos
AddFoodEnter ==
    /\ last.op \in {"none", "add_food"}
    /\ last.op = "add_food" => last.placed
    /\ nframes < scn.max_adds
    /\ nframes' = nframes + 1
    /\ \E pos \in WalkRng :
          last' = [op |-> "add_food", start |-> pos, pos |-> pos, steps |-> 0,
                   placed |-> FALSE, preS |-> snake_parts, preF |-> foods]
    /\ UNCHANGED << players, client_streams, snake_parts, foods, tpc, ticks, hs, hs_id,
                    wire, inbuf, closed, out, sent_frames, decoded, consumed, scn >>
    /\ UNCHANGED hist_vars

\* one iteration of the loop of add_food that does not break
AddFoodWalk ==
    /\ last.op = "add_food"
    /\ ~last.placed
    /\ ~food_free(last.pos, snake_parts, foods)
    /\ last' = [last EXCEPT !.pos = food_next(@), !.steps = @ + 1]
    /\ UNCHANGED << players, client_streams, snake_parts, foods, tpc, ticks, hs, hs_id,
                    wire, inbuf, closed, out, sent_frames, decoded, consumed, nframes, scn >>
    /\ UNCHANGED hist_vars

\* the iteration that breaks, and the increment after the loop
AddFoodPut ==
    /\ last.op = "add_food"
    /\ ~last.placed
    /\ food_free(last.pos, snake_parts, foods)
    /\ foods' = Put(foods, ffield_index(last.pos), At(foods, ffield_index(last.pos)) + 1)
    /\ last' = [last EXCEPT !.placed = TRUE]
    /\ UNCHANGED << players, client_streams, snake_parts, tpc, ticks, hs, hs_id,
                    wire, inbuf, closed, out, sent_frames, decoded, consumed, nframes, scn >>
    /\ UNCHANGED hist_vars

\* outside SpecRace a handshake thread that released the players lock writes
\* JOINED_GAME before any other thread runs
Settled == scn.race \/ \A c \in Clients : hs[c] # "inserted"

\* connection c is in the stream table
Registered(c) == hs_id[c] \in DOMAIN client_streams /\ client_streams[hs_id[c]] = c

\* the food generation loop of Server::start, every draw of the rng giving
\* pos; then the acceptor thread is spawned and the tick loop starts
GenerateFood ==
    /\ UNCHANGED scn
    /\ UNCHANGED hist_vars
    /\ tpc = "gen"
    /\ \E pos \in FoodRng : foods' = add_foods(amount_of_foods, pos, snake_parts, foods)
    /\ tpc' = "read"
    /\ UNCHANGED << players, client_streams, snake_parts, ticks, hs, hs_id, out,
                    decoded, consumed, last >>
    /\ UNCHANGED net_vars

(* ------------------------------------------------------------------ *)
(* Clients and the network                                             *)
(* ------------------------------------------------------------------ *)

\* a registered client writes a frame. The sockets are read in
\* read_players_input alone: what a client writes or the network delivers
\* during the other two phases of a tick is seen by the next drain as if it
\* had happened just before it, so the steps of the clients and of the
\* network are taken between ticks
ClientSend(c) ==
    /\ UNCHANGED scn
    /\ UNCHANGED hist_vars
    /\ tpc = "read"
    /\ Settled
    /\ ticks < scn.max_ticks
    /\ Registered(c)
    /\ ~closed[c]
    /\ nframes < scn.max_frames
    /\ \E payload \in scn.payloads :
          /\ IF scn.split
             THEN wire' = [wire EXCEPT ![c] = @ \o client_frame(payload)] /\ UNCHANGED inbuf
             ELSE inbuf' = [inbuf EXCEPT ![c] = @ \o client_frame(payload)] /\ UNCHANGED wire
          /\ sent_frames' = [sent_frames EXCEPT ![c] = Append(@, payload)]
    /\ nframes' = nframes + 1
    /\ UNCHANGED << players, client_streams, snake_parts, foods, tpc, ticks, hs,
                    hs_id, closed, out, decoded, consumed, last >>

\* the network hands the next k bytes of a connection to the server's socket
Deliver(c) ==
    /\ UNCHANGED scn
    /\ UNCHANGED hist_vars
    /\ tpc = "read"
    /\ Settled
    /\ ticks < scn.max_ticks
    /\ wire[c] # <<>>
    /\ \E k \in 1..Len(wire[c]) :
          /\ inbuf' = [inbuf EXCEPT ![c] = @ \o SubSeq(wire[c], 1, k)]
          /\ wire' = [wire EXCEPT ![c] = SubSeq(@, k + 1, Len(@))]
    /\ UNCHANGED << players, client_streams, snake_parts, foods, tpc, ticks, hs,
                    hs_id, closed, out, sent_frames, decoded, consumed, nframes, last >>

\* a registered client closes its socket
ClientClose(c) ==
    /\ UNCHANGED scn
    /\ UNCHANGED hist_vars
    /\ tpc = "read"
    /\ Settled
    /\ ticks < scn.max_ticks
    /\ Registered(c)
    /\ ~closed[c]
    /\ nframes < scn.max_frames
    /\ closed' = [closed EXCEPT ![c] = TRUE]
    /\ nframes' = nframes + 1
    /\ UNCHANGED << players, client_streams, snake_parts, foods, tpc, ticks, hs,
                    hs_id, wire, inbuf, out, sent_frames, decoded, consumed, last >>

\* a registered client stops reading from its socket: the server's writes to
\* the connection fail from now on
ClientStall(c) ==
    /\ UNCHANGED << scn, request, wfailed, removed >>
    /\ scn.stall
    /\ tpc = "read"
    /\ Settled
    /\ ticks < scn.max_ticks
    /\ Registered(c)
    /\ hs[c] = "joined"
    /\ c \notin stalled
    /\ ~closed[c]
    /\ nframes < scn.max_frames
    /\ stalled' = stalled \cup {c}
    /\ nframes' = nframes + 1
    /\ UNCHANGED << players, client_streams, snake_parts, foods, tpc, ticks, hs,
                    hs_id, wire, inbuf, closed, out, sent_frames, decoded, consumed, last >>

\* a variant in which the reads of a connection fail as soon as its writes do
Eof_or_stalled(c) == (closed[c] \/ c \in stalled) /\ wire[c] = <<>>

\* the server sees the end of the stream of connection c
Eof(c) == closed[c] /\ wire[c] = <<>>

(* ------------------------------------------------------------------ *)
(* Handshake thread                                                    *)
(* ------------------------------------------------------------------ *)

\* the id loop of handle_new_connection: the first i in 1..=u16::MAX that is
\* no key of players, 1 when there is none
\* a variant of the id loop that counts the players instead of scanning
first_free_id_count(i, P) == Cardinality(DOMAIN P) + 1

RECURSIVE first_free_id(_, _)
first_free_id(i, P) ==
    IF i > MaxU16 THEN 1
    ELSE IF i \notin DOMAIN P THEN i
    ELSE first_free_id(i + 1, P)

\* a variant of the new record that starts every snake with score 0
NewPlayer_unfed(nickname, direction, parts, eaten) ==
    [nickname |-> nickname, direction |-> direction, last_direction |-> direction,
     parts |-> parts, kills |-> 0, score |-> 0, fast_mode |-> FALSE]

NewPlayer(nickname, direction, parts, eaten) ==
    [nickname |-> nickname, direction |-> direction, last_direction |-> direction,
     parts |-> parts, kills |-> 0, score |-> eaten, fast_mode |-> FALSE]

\* a variant of add_player that inserts the record before it looks for a
\* place, with the parts it has by then
add_player_early(P, nickname, id, rng, S, F) ==
    LET g == generate_snake_parts(rng[2], id, rng[1], S, F)
    IN  [ok |-> g.ok, P |-> With(P, id, NewPlayer(nickname, rng[2], g.parts, g.eaten)),
         S |-> g.S, F |-> g.F]

\* Server::add_player with rng outcome rng = <<start, direction>>
add_player(P, nickname, id, rng, S, F) ==
    LET g == generate_snake_parts(rng[2], id, rng[1], S, F)
    IN  IF g.ok
        THEN [ok |-> TRUE, P |-> With(P, id, NewPlayer(nickname, rng[2], g.parts, g.eaten)),
              S |-> g.S, F |-> g.F]
        ELSE [ok |-> FALSE, P |-> P, S |-> S, F |-> F]

\* a variant of the capacity test that lets everybody in
server_full_never(P) == FALSE

\* playing_now >= self.max_players
server_full(P) == Cardinality(DOMAIN P) >= max_players

HsResult(state, id, P, CS, S, F, reply) ==
    [hs |-> state, id |-> id, P |-> P, CS |-> CS, S |-> S, F |-> F, reply |-> reply]

\* a variant of the refusal that closes the connection without a reply
HsError_silent(reason) ==
    HsResult("closed", 0, players, client_streams, snake_parts, foods, <<>>)

\* the refusals of handle_new_connection: ERROR and the reason are written,
\* the thread returns and the stream is dropped
HsError(reason) ==
    HsResult("closed", 0, players, client_streams, snake_parts, foods,
             <<Frame(MAGIC_NET_ERROR, reason)>>)

\* the status reply has no opcode: -1 stands for it in the log
StatusReply == Frame(-1, <<max_players, Cardinality(DOMAIN players)>>)

\* handle_new_connection from the first frame's payload up to the release of
\* the players lock
handle_request(c, bytes, rng) ==
    IF bytes = <<>>
    THEN HsResult("closed", 0, players, client_streams, snake_parts, foods, <<>>)
    ELSE IF bytes[1] = MAGIC_NET_REQUEST_TO_PLAY
    THEN IF ~from_utf8_ok(Tail(bytes)) THEN HsError("can't read nickname")
         ELSE LET nickname == escape_default(Tail(bytes))
              IN  IF nickname = <<>> \/ Len(nickname) > 10
                  THEN HsError("nickname too short/long")
                  ELSE IF server_full(players)
                  THEN HsError("server full")
                  ELSE LET id == first_free_id(1, players)
                           a == add_player(players, nickname, id, rng, snake_parts, foods)
                       IN  IF ~a.ok
                           THEN HsResult("closed", 0, a.P, client_streams, a.S, a.F,
                                         <<Frame(MAGIC_NET_ERROR,
                                                 "not enough space in world. try again")>>)
                           ELSE HsResult("inserted", id, a.P, With(client_streams, id, c),
                                         a.S, a.F, <<>>)
    ELSE IF bytes[1] = MAGIC_NET_SERVER_STATUS
    THEN HsResult("closed", 0, players, client_streams, snake_parts, foods, <<StatusReply>>)
    ELSE HsResult("closed", 0, players, client_streams, snake_parts, foods, <<>>)

\* Server::handle_new_connection up to drop(players) for a connection whose
\* first frame carries payload: the blocking read of the frame, the
\* validation and the critical section
HandleNewConnection(c) ==
    /\ UNCHANGED << scn, stalled, wfailed, removed >>
    /\ hs[c] = "idle"
    /\ c \in scn.clients
    /\ \A b \in Clients : b < c => hs[b] # "idle"
    /\ tpc \notin {"gen", "panicked"}
    /\ Settled
    /\ ticks < scn.join_ticks
    /\ \E payload \in (IF scn.any_first THEN AnyFirstPayloads(c) ELSE FirstPayloads(c)) :
       \E rng \in SpawnRngOf(scn) :
          \E r \in {read_from_stream(client_frame(payload), FALSE)} :
          \E h \in {handle_request(c, r.bytes, rng)} :
              /\ r.res = "ok"
              /\ hs' = [hs EXCEPT ![c] = h.hs]
              /\ hs_id' = [hs_id EXCEPT ![c] = h.id]
              /\ players' = h.P
              /\ client_streams' = h.CS
              /\ snake_parts' = h.S
              /\ foods' = h.F
              /\ out' = [out EXCEPT ![c] = @ \o h.reply]
              /\ request' = [request EXCEPT ![c] = payload]
    /\ UNCHANGED << tpc, ticks, wire, inbuf, closed, sent_frames, decoded, consumed,
                    nframes, last >>

\* Server::handle_new_connection for a connection whose client closes its
\* socket after k bytes of its first frame, not all of them: read_exact
\* fails, read_from_stream returns Err and the thread returns
HandleLostConnection(c) ==
    /\ UNCHANGED << scn, stalled, wfailed, removed, request >>
    /\ hs[c] = "idle"
    /\ c \in scn.clients
    /\ \A b \in Clients : b < c => hs[b] # "idle"
    /\ tpc \notin {"gen", "panicked"}
    /\ Settled
    /\ ticks < scn.join_ticks
    /\ \E payload \in AnyFirstPayloads(c) : \E k \in 0..Len(payload) :
          /\ read_from_stream(SubSeq(client_frame(payload), 1, k), TRUE).res = "err"
          /\ sent_frames' = [sent_frames EXCEPT ![c] = << SubSeq(client_frame(payload), 1, k) >>]
    /\ hs' = [hs EXCEPT ![c] = "closed"]
    /\ closed' = [closed EXCEPT ![c] = TRUE]
    /\ UNCHANGED << players, client_streams, snake_parts, foods, tpc, ticks, hs_id, wire,
                    inbuf, out, decoded, consumed, nframes, last >>

\* the rest of handle_new_connection: JOINED_GAME is written after the
\* players lock was released
SendJoined(c) ==
    /\ UNCHANGED scn
    /\ UNCHANGED hist_vars
    /\ hs[c] = "inserted"
    /\ tpc # "panicked"
    /\ out' = [out EXCEPT ![c] = Append(@, Frame(MAGIC_NET_JOINED_GAME, <<hs_id[c], WorldW, WorldH>>))]
    /\ hs' = [hs EXCEPT ![c] = "joined"]
    /\ UNCHANGED << players, client_streams, snake_parts, foods, tpc, ticks, hs_id,
                    wire, inbuf, closed, sent_frames, decoded, consumed, nframes, last >>

(* ------------------------------------------------------------------ *)
(* Input drainer                                                       *)
(* ------------------------------------------------------------------ *)

\* the state the loops of the main thread work on
TickState ==
    [P |-> players, CS |-> client_streams, S |-> snake_parts, F |-> foods,
     inbuf |-> inbuf, decoded |-> decoded, consumed |-> consumed, out |-> out,
     wfailed |-> wfailed, removed |-> removed,
     mid |-> [P |-> players, S |-> snake_parts, F |-> foods],
     res |-> [P |-> players, S |-> snake_parts, F |-> foods],
     deaths |-> <<>>, claims |-> <<>>, crashed |-> <<>>, panic |-> FALSE]

\* send_to_stream of the main thread on connection c: write_all fails when
\* the client has stopped reading, and the result is dropped
write(st, c, frame) ==
    IF c \in stalled
    THEN [st EXCEPT !.wfailed[c] = IF @ = -1 THEN ticks ELSE @]
    ELSE [st EXCEPT !.out[c] = Append(@, frame)]

\* a variant of the removal that leaves the stream in the stream table
Kill_keep_stream(id, cause, st, rpos) ==
    LET r == remove_snake(id, st.P, st.S, st.F, rpos)
    IN  [st EXCEPT !.P = r.P, !.S = r.S, !.F = r.F,
                   !.removed[st.CS[id]] = cause,
                   !.deaths = Append(@, DeathRec(id, st.CS[id], cause, st.P, st.F, r))]

\* remove_snake followed by client_streams.remove, with the history record
Kill(id, cause, st, rpos) ==
    LET r == remove_snake(id, st.P, st.S, st.F, rpos)
    IN  [st EXCEPT !.P = r.P, !.S = r.S, !.F = r.F, !.CS = Without(st.CS, id),
                   !.removed[st.CS[id]] = cause,
                   !.deaths = Append(@, DeathRec(id, st.CS[id], cause, st.P, st.F, r))]

\* the effect of one decoded frame on the player record of id; frames that
\* match no branch change nothing
change_direction_always(P, id, byte) == [P EXCEPT ![id].direction = from_byte(byte)]

change_direction_current(P, id, byte) ==
    IF is_opposite_of(from_byte(byte), P[id].direction) THEN P
    ELSE [P EXCEPT ![id].direction = from_byte(byte)]

change_direction(P, id, byte) ==
    IF is_opposite_of(from_byte(byte), P[id].last_direction) THEN P
    ELSE [P EXCEPT ![id].direction = from_byte(byte)]

toggle_fast_any(P, id) == [P EXCEPT ![id].fast_mode = ~P[id].fast_mode]

toggle_fast(P, id) ==
    IF P[id].score = 0 THEN P ELSE [P EXCEPT ![id].fast_mode = ~P[id].fast_mode]

\* the inner loop of read_players_input for the stream of id
RECURSIVE drain(_, _, _)
drain(id, st, rpos) ==
    LET c == st.CS[id]
        r == read_from_stream(st.inbuf[c], Eof(c))
        st1 == [st EXCEPT !.inbuf[c] = r.rest,
                          !.consumed[c] = @ + (Len(st.inbuf[c]) - Len(r.rest))]
        st2 == [st1 EXCEPT !.decoded[c] = Append(@, r.bytes)]
    IN  IF r.res = "wouldblock" THEN st1
        ELSE IF r.res = "err"
        THEN IF id \notin DOMAIN st.P THEN [st1 EXCEPT !.panic = TRUE]
             ELSE Kill(id, "error", st1, rpos)
        ELSE IF r.bytes = <<MAGIC_NET_EXIT>>
        THEN IF id \notin DOMAIN st.P THEN [st2 EXCEPT !.panic = TRUE]
             ELSE Kill(id, "exit", st2, rpos)
        ELSE IF Len(r.bytes) = 2 /\ r.bytes[1] = MAGIC_NET_CHANGE_DIRECTION
        THEN IF id \notin DOMAIN st.P THEN [st2 EXCEPT !.panic = TRUE]
             ELSE drain(id, [st2 EXCEPT !.P = change_direction(st2.P, id, r.bytes[2])], rpos)
        ELSE IF r.bytes = <<MAGIC_NET_TOGGLE_FAST>>
        THEN IF id \notin DOMAIN st.P THEN [st2 EXCEPT !.panic = TRUE]
             ELSE drain(id, [st2 EXCEPT !.P = toggle_fast(st2.P, id)], rpos)
        ELSE drain(id, st2, rpos)

\* the outer loop of read_players_input over the ids in the order ids
RECURSIVE drain_all(_, _, _, _)
drain_all(ids, i, st, rpos) ==
    IF i > Len(ids) \/ st.panic THEN st
    ELSE drain_all(ids, i + 1, drain(ids[i], st, rpos), rpos)

\* the part of a tick state the history keeps
LastOf(op, st) ==
    [op |-> op, deaths |-> st.deaths, claims |-> st.claims, crashed |-> st.crashed,
     pre |-> players, preS |-> snake_parts, preF |-> foods,
     predec |-> [c \in Clients |-> Len(decoded[c])],
     mid |-> st.mid, res |-> st.res]

\* the outcomes of the rng of remove_snake a drain may see: remove_snake runs
\* only for a connection that has unread bytes or was closed
DrainFoodRng ==
    IF \E c \in Clients : inbuf[c] # <<>> \/ closed[c] THEN FoodRng
    ELSE {CHOOSE pos \in FoodRng : TRUE}

\* Server::read_players_input
ReadPlayersInput ==
    /\ UNCHANGED << scn, request, stalled, wfailed >>
    /\ tpc = "read"
    /\ Settled
    /\ ticks < scn.max_ticks
    /\ \E ids \in Orders(DOMAIN client_streams) : \E rpos \in DrainFoodRng :
          \E st \in {drain_all(ids, 1, TickState, rpos)} :
              /\ players' = st.P
              /\ client_streams' = st.CS
              /\ snake_parts' = st.S
              /\ foods' = st.F
              /\ inbuf' = st.inbuf
              /\ decoded' = st.decoded
              /\ consumed' = st.consumed
              /\ removed' = st.removed
              /\ tpc' = IF st.panic THEN "panicked" ELSE "move"
              /\ last' = LastOf("read", st)
    /\ UNCHANGED << ticks, hs, hs_id, wire, closed, out, sent_frames, nframes >>

(* ------------------------------------------------------------------ *)
(* Movement resolver                                                   *)
(* ------------------------------------------------------------------ *)

\* the snake moves this tick in fast mode (after the automatic switch-off)
FastNow(pl) == pl.fast_mode /\ ~(pl.score < 1)

\* a variant of the head position that does not wrap
new_head_pos_unwrapped(pl) ==
    LET head == pl.parts[Len(pl.parts)]
        dv == to_vector(pl.direction)
    IN  << head[1] + dv[1], head[2] + dv[2] >>

\* the head position a snake claims
new_head_pos(pl) ==
    LET head == pl.parts[Len(pl.parts)]
        dv == to_vector(pl.direction)
    IN  << ((head[1] + dv[1]) + WorldW) % WorldW, ((head[2] + dv[2]) + WorldH) % WorldH >>

\* the head positions a snake inserts into headposition_to_check: the loop
\* over the moves reads parts.back() anew each time, and parts does not
\* change in between
head_claims(id, pl) ==
    IF FastNow(pl) THEN << <<new_head_pos(pl), id>>, <<new_head_pos(pl), id>> >>
    ELSE << <<new_head_pos(pl), id>> >>

\* a variant of the tail trim that pops one part at most
tail_trim_once(len, score) ==
    IF (len - 3) - calc_length(score) > 0 THEN 1 ELSE 0

\* the number of parts popped from the tail:
\* ((parts.len() - 3) as u16).saturating_sub(calc_length(score) as u16)
tail_trim(len, score) ==
    IF (len - 3) - calc_length(score) > 0 THEN (len - 3) - calc_length(score) ELSE 0

\* a variant of the burn that takes no score
burn_free(pl) == pl.score

\* a variant of the burn that takes one score for each of the two moves
burn_per_move(pl) == IF FastNow(pl) THEN pl.score - 2 ELSE pl.score

\* the score after `if fast_mode { score -= 1 }`, which follows the
\* automatic switch-off
burn(pl) == IF FastNow(pl) THEN pl.score - 1 ELSE pl.score

\* the first loop body of move_snakes for one snake; rq, rpos: rng outcomes
intent(id, st, rq, rpos) ==
    LET pl == st.P[id]
        fast == FastNow(pl)
        score1 == burn(pl)
        n == tail_trim(Len(pl.parts), score1)
        parts1 == SubSeq(pl.parts, n + 1, Len(pl.parts))
        S1 == clear_parts(pl.parts, 1, n, st.S)
        F1 == IF ~fast THEN st.F
              ELSE IF n > 0 THEN Put(st.F, sf_to_ff_index(pl.parts[n])[rq + 1], 1)
              ELSE add_food(rpos, S1, st.F)
    IN  IF Len(pl.parts) < 3 THEN [st EXCEPT !.panic = TRUE]
        ELSE [st EXCEPT !.P[id] = [pl EXCEPT !.fast_mode = fast,
                                             !.last_direction = pl.direction,
                                             !.score = score1,
                                             !.parts = parts1],
                        !.S = S1, !.F = F1,
                        !.claims = @ \o head_claims(id, pl)]

RECURSIVE intent_all(_, _, _, _, _)
intent_all(ids, i, st, rq, rpos) ==
    IF i > Len(ids) \/ st.panic THEN st
    ELSE intent_all(ids, i + 1, intent(ids[i], st, rq, rpos), rq, rpos)

\* the ids that claim a field, in the order of their insertion
RECURSIVE claimants(_, _)
claimants(claims, field) ==
    IF claims = <<>> THEN <<>>
    ELSE (IF Head(claims)[1] = field THEN <<Head(claims)[2]>> ELSE <<>>)
         \o claimants(Tail(claims), field)

ClaimedFields(claims) == {claims[i][1] : i \in 1..Len(claims)}

\* a variant of the collision loop that leaves every entry after the first
\* crash of the tick as it is
resolve_stop_at_crash(field, st) ==
    LET ids == claimants(st.claims, field)
        k == sfield_index(field)
        foreign_id == At(st.S, k)
    IN  IF st.crashed # <<>> THEN st
        ELSE IF Len(ids) > 1 THEN [st EXCEPT !.crashed = @ \o ids]
        ELSE IF At(st.S, k) # 0
        THEN IF foreign_id # ids[1]
             THEN [st EXCEPT !.crashed = Append(@, ids[1]), !.P[foreign_id].kills = @ + 1]
             ELSE [st EXCEPT !.crashed = Append(@, ids[1])]
        ELSE [st EXCEPT !.P[ids[1]].score = @ + FoodAt(st.F, field),
                        !.P[ids[1]].parts = Append(@, field),
                        !.F = EatAt(st.F, field),
                        !.S = Put(st.S, k, ids[1])]

\* the second loop body of move_snakes for one entry (field, ids)
resolve(field, st) ==
    LET ids == claimants(st.claims, field)
        k == sfield_index(field)
        foreign_id == At(st.S, k)
    IN  IF Len(ids) > 1 THEN [st EXCEPT !.crashed = @ \o ids]
        ELSE IF At(st.S, k) # 0
        THEN IF foreign_id # ids[1]
             THEN IF foreign_id \notin DOMAIN st.P
                  THEN [st EXCEPT !.crashed = Append(@, ids[1]), !.panic = TRUE]
                  ELSE [st EXCEPT !.crashed = Append(@, ids[1]),
                                  !.P[foreign_id].kills = @ + 1]
             ELSE [st EXCEPT !.crashed = Append(@, ids[1])]
        ELSE [st EXCEPT !.P[ids[1]].score = @ + FoodAt(st.F, field),
                        !.P[ids[1]].parts = Append(@, field),
                        !.F = EatAt(st.F, field),
                        !.S = Put(st.S, k, ids[1])]

RECURSIVE resolve_all(_, _, _)
resolve_all(fields, i, st) ==
    IF i > Len(fields) \/ st.panic THEN st
    ELSE resolve_all(fields, i + 1, resolve(fields[i], st))

\* the third loop of move_snakes: DEATH, remove_snake, client_streams.remove
RECURSIVE kill_crashed(_, _, _)
kill_crashed(i, st, rpos) ==
    IF i > Len(st.crashed) \/ st.panic THEN st
    ELSE LET id == st.crashed[i]
         IN  IF id \notin DOMAIN st.CS THEN [st EXCEPT !.panic = TRUE]
             ELSE LET st1 == write(st, st.CS[id], Frame(MAGIC_NET_DEATH, <<>>))
                  IN  IF id \notin DOMAIN st1.P THEN [st1 EXCEPT !.panic = TRUE]
                      ELSE kill_crashed(i + 1, Kill(id, "crash", st1, rpos), rpos)

\* the registry and the world between two loops of move_snakes, kept for
\* the history
Snap(phase, st) ==
    LET now == [P |-> st.P, S |-> st.S, F |-> st.F]
    IN  IF phase = "mid" THEN [st EXCEPT !.mid = now, !.res = now]
        ELSE [st EXCEPT !.res = now]

\* the outcomes of the rng that picks the sub-cell of the tail food: it is
\* drawn only for a snake in fast mode
MoveQuadRng ==
    IF \E id \in DOMAIN players : FastNow(players[id]) THEN QuadRng
    ELSE {CHOOSE q \in QuadRng : TRUE}

\* Server::move_snakes
MoveSnakes ==
    /\ UNCHANGED << scn, request, stalled >>
    /\ tpc = "move"
    /\ Settled
    /\ \E ids \in Orders(DOMAIN players) : \E rq \in MoveQuadRng : \E rpos \in FoodRng :
          \E st1 \in {Snap("mid", intent_all(ids, 1, TickState, rq, rpos))} :
              \E fields \in Orders(ClaimedFields(st1.claims)) :
                 \E st \in {kill_crashed(1, Snap("res", resolve_all(fields, 1, st1)), rpos)} :
                     /\ players' = st.P
                     /\ client_streams' = st.CS
                     /\ snake_parts' = st.S
                     /\ foods' = st.F
                     /\ out' = st.out
                     /\ wfailed' = st.wfailed
                     /\ removed' = st.removed
                     /\ tpc' = IF st.panic THEN "panicked" ELSE "send"
                     /\ last' = LastOf("move", st)
    /\ UNCHANGED << ticks, hs, hs_id, inbuf, decoded, consumed >>
    /\ UNCHANGED net_vars

(* ------------------------------------------------------------------ *)
(* Broadcaster                                                         *)
(* ------------------------------------------------------------------ *)

\* u16::to_be_bytes
to_be_bytes(v) == << (v \div 256) % 256, v % 256 >>

\* (v as i8).to_be_bytes()[0] for v in -128..127
i8_byte(v) == (v + 256) % 256

\* the bytes of a sequence of records of w bytes each, one after the other
Flatten(recs, w) == [j \in 1..(w * Len(recs)) |-> recs[((j - 1) \div w) + 1][((j - 1) % w) + 1]]

\* the record of one snake in the shared part of GAME_DATA
snake_record(id, snake) ==
    to_be_bytes(id) \o <<Len(snake.nickname)>> \o snake.nickname
        \o to_be_bytes(snake.score) \o to_be_bytes(snake.kills)
        \o to_be_bytes(snake.parts[Len(snake.parts)][1])
        \o to_be_bytes(snake.parts[Len(snake.parts)][2])
        \o <<IF snake.fast_mode THEN 1 ELSE 0>>

RECURSIVE snake_records(_, _, _)
snake_records(P, ids, i) ==
    IF i > Len(ids) THEN <<>>
    ELSE snake_record(ids[i], P[ids[i]]) \o snake_records(P, ids, i + 1)

\* a variant of the shared part with the record of the first id only
shared_bytes_first(P, ids) ==
    to_be_bytes(Cardinality(DOMAIN P) % (MaxU16 + 1)) \o snake_records(P, SubSeq(ids, 1, 1), 1)

\* the shared part of GAME_DATA after the opcode: the number of snakes and
\* one record for each id, in the order ids of the key iteration
shared_bytes(P, ids) == to_be_bytes(Cardinality(DOMAIN P) % (MaxU16 + 1)) \o snake_records(P, ids, 1)

\* the offsets of the view in the order of the loops: y outside, x inside
ViewCells ==
    [k \in 1..((2 * ViewX + 1) * (2 * ViewY + 1)) |->
        << ((k - 1) % (2 * ViewX + 1)) - ViewX, ((k - 1) \div (2 * ViewX + 1)) - ViewY >>]

\* the offsets of the view, each with the four indices of sf_to_ff_index
ViewSlots ==
    [k \in 1..(4 * Len(ViewCells)) |-> << ViewCells[((k - 1) \div 4) + 1], (k - 1) % 4 >>]

\* a variant of the field under an offset that does not wrap
view_field_unwrapped(head, o) == << head[1] + o[1], head[2] + o[2] >>

\* the field of the world under the offset o of the view of a head
view_field(head, o) ==
    << (head[1] + o[1] + WorldW * 2) % WorldW, (head[2] + o[2] + WorldH * 2) % WorldH >>

\* the vector of n fields that the map V of its non-zero fields stands for
Dense(V, n) == [k \in 0..(n - 1) |-> At(V, k)]

\* the snake part records of the view of head; S is the vector
temp_snakes(head, S) ==
    LET Seen(o) == S[sfield_index(view_field(head, o))] # 0
        seen == SelectSeq(ViewCells, Seen)
    IN  Flatten([n \in 1..Len(seen) |->
                    << i8_byte(seen[n][1]), i8_byte(seen[n][2]) >>
                        \o to_be_bytes(S[sfield_index(view_field(head, seen[n]))])], 4)

\* a variant of the food records that looks at the first sub-cell of a
\* field only
temp_foods_first(head, S, F) ==
    LET Seen(o) ==
            /\ S[sfield_index(view_field(head, o))] = 0
            /\ F[sf_to_ff_index(view_field(head, o))[1]] > 0
        seen == SelectSeq(ViewCells, Seen)
    IN  Flatten([n \in 1..Len(seen) |->
                    << i8_byte(seen[n][1] * 2), i8_byte(seen[n][2] * 2),
                       F[sf_to_ff_index(view_field(head, seen[n]))[1]] >>], 3)

\* the food records of the view of head; S and F are the vectors
temp_foods(head, S, F) ==
    LET Seen(sl) ==
            /\ S[sfield_index(view_field(head, sl[1]))] = 0
            /\ F[sf_to_ff_index(view_field(head, sl[1]))[sl[2] + 1]] > 0
        seen == SelectSeq(ViewSlots, Seen)
    IN  Flatten([n \in 1..Len(seen) |->
                    << i8_byte(seen[n][1][1] * 2 + (IF seen[n][2] \in {1, 3} THEN 1 ELSE 0)),
                       i8_byte(seen[n][1][2] * 2 + (IF seen[n][2] \in {2, 3} THEN 1 ELSE 0)),
                       F[sf_to_ff_index(view_field(head, seen[n][1]))[seen[n][2] + 1]] >>], 3)

\* the bytes after the shared part of the GAME_DATA frame of the player
\* whose head is head
tail_bytes(head, S, F) ==
    LET foods_ == temp_foods(head, S, F)
        snakes == temp_snakes(head, S)
    IN  to_be_bytes((Len(foods_) \div 3) % (MaxU16 + 1)) \o foods_
            \o to_be_bytes((Len(snakes) \div 4) % (MaxU16 + 1)) \o snakes
            \o to_be_bytes(head[1]) \o to_be_bytes(head[2])

\* the bytes after the opcode of the GAME_DATA frame of player id
individual_bytes(P, S, F, ids, id) ==
    shared_bytes(P, ids)
        \o tail_bytes(P[id].parts[Len(P[id].parts)],
                       Dense(S, WorldW * WorldH), Dense(F, 4 * WorldW * WorldH))

\* what the log of a connection keeps of a GAME_DATA frame: the opcode
\* alone, or with the shared part ("shared"), or with all its bytes ("all")
FrameMode(s) == IF "frames" \in DOMAIN s THEN s.frames ELSE "none"

\* the loop of send_data_to_players over the ids in the order ids
RECURSIVE send_all(_, _, _, _)
send_all(mode, ids, i, st) ==
    IF i > Len(ids) \/ st.panic THEN st
    ELSE LET id == ids[i]
         IN  IF st.P[id].parts = <<>> \/ id \notin DOMAIN st.CS
             THEN [st EXCEPT !.panic = TRUE]
             ELSE send_all(mode, ids, i + 1,
                           write(st, st.CS[id],
                                 Frame(MAGIC_NET_GAME_DATA,
                                       CASE mode = "all" -> individual_bytes(st.P, st.S, st.F, ids, id)
                                         [] mode = "shared" -> shared_bytes(st.P, ids)
                                         [] OTHER -> <<>>)))

\* Server::send_data_to_players, and the end of the tick
SendDataToPlayers ==
    /\ UNCHANGED << scn, request, stalled, removed >>
    /\ tpc = "send"
    /\ Settled
    /\ \E ids \in Orders(DOMAIN players) :
          \E st \in {send_all(FrameMode(scn), ids, 1, TickState)} :
              /\ out' = st.out
              /\ wfailed' = st.wfailed
              /\ tpc' = IF st.panic THEN "panicked" ELSE "read"
              /\ last' = LastOf("send", st)
    /\ ticks' = ticks + 1
    /\ UNCHANGED << players, client_streams, snake_parts, foods, hs, hs_id,
                    inbuf, decoded, consumed >>
    /\ UNCHANGED net_vars

(* ------------------------------------------------------------------ *)
(* Specification                                                       *)
(* ------------------------------------------------------------------ *)

Next ==
    \/ GenerateFood
    \/ \E c \in Clients : ClientSend(c)
    \/ \E c \in Clients : ClientClose(c)
    \/ \E c \in Clients : HandleNewConnection(c)
    \/ \E c \in Clients : SendJoined(c)
    \/ ReadPlayersInput
    \/ MoveSnakes
    \/ SendDataToPlayers

Spec == Init /\ [][Next]_vars

NextCast ==
    \/ \E c \in Clients : ClientSend(c)
    \/ \E c \in Clients : ClientClose(c)
    \/ ReadPlayersInput
    \/ MoveSnakes
    \/ SendDataToPlayers

SpecCast == InitCast /\ [][NextCast]_vars

NextView ==
    SendDataToPlayers

SpecView == InitView /\ [][NextView]_vars

SpecTrim == InitTrim /\ [][NextCast]_vars

NextRace ==
    \/ GenerateFood
    \/ \E c \in Clients : HandleNewConnection(c)
    \/ \E c \in Clients : SendJoined(c)
    \/ ReadPlayersInput
    \/ MoveSnakes
    \/ SendDataToPlayers

SpecRace == InitRace /\ [][NextRace]_vars

NextDrain ==
    \/ GenerateFood
    \/ \E c \in Clients : ClientSend(c)
    \/ \E c \in Clients : Deliver(c)
    \/ \E c \in Clients : ClientClose(c)
    \/ \E c \in Clients : HandleNewConnection(c)
    \/ \E c \in Clients : SendJoined(c)
    \/ ReadPlayersInput
    \/ MoveSnakes
    \/ SendDataToPlayers

SpecDrain == InitDrain /\ [][NextDrain]_vars

NextJoin ==
    \/ GenerateFood
    \/ \E c \in Clients : ClientClose(c)
    \/ \E c \in Clients : HandleNewConnection(c)
    \/ \E c \in Clients : SendJoined(c)
    \/ ReadPlayersInput
    \/ MoveSnakes
    \/ SendDataToPlayers

SpecJoin == InitJoin /\ [][NextJoin]_vars

NextStall ==
    \/ GenerateFood
    \/ \E c \in Clients : ClientStall(c)
    \/ \E c \in Clients : ClientClose(c)
    \/ \E c \in Clients : HandleNewConnection(c)
    \/ \E c \in Clients : SendJoined(c)
    \/ ReadPlayersInput
    \/ MoveSnakes
    \/ SendDataToPlayers

SpecStall == InitStall /\ [][NextStall]_vars

SpecCrash == InitCrash /\ [][Next]_vars


(* ------------------------------------------------------------------ *)
(* The three mutexes and the threads that lock them                    *)
(* ------------------------------------------------------------------ *)

\* the mutexes of Server
Mutexes == {"players", "world", "client_streams"}

\* the main thread, two threads of handle_new_connection whose client asks
\* to play, and one whose client asks for the server status
LockThreads == {"main", "play1", "play2", "status"}

Lock(m) == << <<"lock", m>> >>
Unlock(m) == << <<"unlock", m>> >>

\* the operations ops, k times over
RECURSIVE Times(_, _)
Times(k, ops) == IF k = 0 THEN <<>> ELSE ops \o Times(k - 1, ops)

\* read_players_input: the guards of players and client_streams are held to
\* the end and dropped in the reverse order; each removal locks world for
\* the call of remove_snake
ReadScripts ==
    { Lock("players") \o Lock("client_streams")
        \o Times(k, Lock("world") \o Unlock("world"))
        \o Unlock("client_streams") \o Unlock("players") : k \in 0..LockLoops }

\* move_snakes: the guards of players and world are held to the end; each
\* crashed snake locks client_streams for the DEATH frame and again for the
\* removal of its stream; the unwrap of a missing stream panics with the
\* three guards held
MoveScripts ==
    { Lock("players") \o Lock("world")
        \o Times(k, Lock("client_streams") \o Unlock("client_streams")
                        \o Lock("client_streams") \o Unlock("client_streams"))
        \o Unlock("world") \o Unlock("players") : k \in 0..LockLoops }
    \cup
    { Lock("players") \o Lock("world")
        \o Times(k, Lock("client_streams") \o Unlock("client_streams")
                        \o Lock("client_streams") \o Unlock("client_streams"))
        \o Lock("client_streams") \o << <<"panic", "">> >> : k \in 1..LockLoops }

\* send_data_to_players: the guards of players and world are held to the
\* end; each frame locks client_streams
SendScripts ==
    { Lock("players") \o Lock("world")
        \o Times(k, Lock("client_streams") \o Unlock("client_streams"))
        \o Unlock("world") \o Unlock("players") : k \in 0..LockLoops }

\* the phases of a tick and the lock operations of each
PhaseScripts(phase) ==
    CASE phase = "read" -> ReadScripts
      [] phase = "move" -> MoveScripts
      [] OTHER -> SendScripts

NextPhase(phase) ==
    CASE phase = "read" -> "move"
      [] phase = "move" -> "send"
      [] OTHER -> "read"

\* a variant of the handshake that inserts the stream with the guard of
\* world held and without the guard of players
HandshakeScripts_ungated ==
    { Lock("world") \o Lock("client_streams") \o Unlock("client_streams") \o Unlock("world") }

\* handle_new_connection for a request to play: it returns before it locks
\* anything; or it locks players and returns because the server is full;
\* or generate_snake_parts locks world once for each candidate, and then
\* either the spawn failed, or client_streams is locked for the insert and
\* the guard of players is dropped
HandshakeScripts ==
    { <<>>, Lock("players") \o Unlock("players") }
    \cup
    { Lock("players") \o Times(k, Lock("world") \o Unlock("world")) \o Unlock("players")
        : k \in 1..LockLoops }
    \cup
    { Lock("players") \o Times(k, Lock("world") \o Unlock("world"))
        \o Lock("client_streams") \o Unlock("client_streams") \o Unlock("players")
        : k \in 1..LockLoops }

\* send_server_data_to_stream: players is locked for the count and again
\* for the scores
StatusScripts ==
    { Lock("players") \o Unlock("players") \o Lock("players") \o Unlock("players") }

\* SpecLocks: no mutex is held, no thread has started
InitLocks ==
    InitState([max_ticks |-> LockTicks],
              [op |-> "locks",
               owner |-> [m \in Mutexes |-> ""],
               poisoned |-> {},
               todo |-> [t \in LockThreads |-> <<>>],
               started |-> {},
               dead |-> {},
               phase |-> "read",
               phases |-> 0])

LockFrame ==
    /\ UNCHANGED << players, client_streams, snake_parts, foods, tpc, ticks, hs, hs_id,
                    wire, inbuf, closed, out, sent_frames, decoded, consumed, nframes, scn >>
    /\ UNCHANGED hist_vars

\* a thread of handle_new_connection starts
ThreadStart(t) ==
    /\ last.op = "locks"
    /\ t \in LockThreads \ {"main"}
    /\ t \notin last.started
    /\ \E script \in (IF t = "status" THEN StatusScripts ELSE HandshakeScripts) :
          last' = [last EXCEPT !.todo[t] = script, !.started = @ \cup {t}]
    /\ LockFrame

\* the main thread enters the next phase of a tick
MainPhase ==
    /\ last.op = "locks"
    /\ last.todo["main"] = <<>>
    /\ "main" \notin last.dead
    /\ last.phases < 3 * scn.max_ticks
    /\ \E script \in PhaseScripts(last.phase) :
          last' = [last EXCEPT !.todo["main"] = script, !.phase = NextPhase(@),
                               !.phases = @ + 1]
    /\ LockFrame

\* the operation a thread is at
NextOp(t) == IF last.todo[t] = <<>> THEN <<"none", "">> ELSE Head(last.todo[t])

\* Mutex::lock returns Ok: the mutex is free and not poisoned
LockAcquire(t) ==
    /\ last.op = "locks"
    /\ NextOp(t)[1] = "lock"
    /\ last.owner[NextOp(t)[2]] = ""
    /\ NextOp(t)[2] \notin last.poisoned
    /\ last' = [last EXCEPT !.owner[NextOp(t)[2]] = t, !.todo[t] = Tail(@)]
    /\ LockFrame

\* the mutexes a panic of thread t poisons: those whose guards it holds
HeldBy(t) == {m \in Mutexes : last.owner[m] = t}

\* the thread panics: in its code, or in the unwrap of Mutex::lock that
\* returned Err for a poisoned mutex; the unwinding drops its guards
LockPanic(t) ==
    /\ last.op = "locks"
    /\ \/ NextOp(t)[1] = "panic"
       \/ /\ NextOp(t)[1] = "lock"
          /\ last.owner[NextOp(t)[2]] = ""
          /\ NextOp(t)[2] \in last.poisoned
    /\ last' = [last EXCEPT !.owner = [m \in Mutexes |-> IF @[m] = t THEN "" ELSE @[m]],
                            !.poisoned = @ \cup HeldBy(t),
                            !.todo[t] = <<>>,
                            !.dead = @ \cup {t}]
    /\ LockFrame

\* a guard is dropped
LockRelease(t) ==
    /\ last.op = "locks"
    /\ NextOp(t)[1] = "unlock"
    /\ last' = [last EXCEPT !.owner[NextOp(t)[2]] = "", !.todo[t] = Tail(@)]
    /\ LockFrame

NextLocks ==
    \/ \E t \in LockThreads : ThreadStart(t)
    \/ MainPhase
    \/ \E t \in LockThreads : LockAcquire(t)
    \/ \E t \in LockThreads : LockPanic(t)
    \/ \E t \in LockThreads : LockRelease(t)

SpecLocks == InitLocks /\ [][NextLocks]_vars

NextCodec == CodecSend \/ CodecRead

SpecCodec == InitCodec /\ [][NextCodec]_vars

NextLen == CalcLength

SpecLen == InitLen /\ [][NextLen]_vars

NextSpawn == \E c \in Clients : HandleNewConnection(c) \/ SendJoined(c)

SpecSpawn == InitSpawn /\ [][NextSpawn]_vars

NextFail ==
    \/ \E c \in Clients : HandleNewConnection(c)
    \/ \E c \in Clients : HandleLostConnection(c)
    \/ \E c \in Clients : SendJoined(c)

SpecFail == InitFail /\ [][NextFail]_vars

(* ------------------------------------------------------------------ *)
(* The length of GAME_DATA                                             *)
(* ------------------------------------------------------------------ *)

\* the number of bytes send_data_to_players hands to send_to_stream for one
\* player: the opcode, the count and a record of 12 bytes and the nickname
\* for each of n snakes with nicknames of nick bytes, the count and 3 bytes
\* for each of f food records, the count and 4 bytes for each of p snake
\* part records, and the head
game_data_len(n, nick, f, p) == 1 + 2 + n * (12 + nick) + 2 + 3 * f + 2 + 4 * p + 4

\* numbers of snakes in the registry: a few, and those around which the
\* length passes 2^16 with nicknames of 10 and of 8 bytes, and 2^17
PlayerCounts == {1, 2, 255, 2977, 2978, 3275, 3276, 5957}

\* the fields of the view
ViewSize == (2 * ViewX + 1) * (2 * ViewY + 1)

\* SpecLength: a broadcast in a game of n snakes whose nicknames have nick
\* bytes, to a player that sees p snake parts, its own three at least, and
\* f foods in the fields that hold no snake
InitLength ==
    \E n \in PlayerCounts : \E nick \in {1, 8, 10} :
    \E p \in {3, 30, 300} : \E f \in {0, amount_of_foods, 4 * (ViewSize - 300)} :
        /\ f <= 4 * (ViewSize - p)
        /\ InitState([max_ticks |-> 0],
                     [op |-> "none", n |-> n, nick |-> nick, f |-> f, p |-> p,
                      len |-> 0, size |-> <<>>])

\* the frame of one player is handed to send_to_stream, which writes the
\* two bytes of the length before it
SendGameData ==
    /\ last.op = "none"
    /\ LET len == game_data_len(last.n, last.nick, last.f, last.p)
           message == send_to_stream([i \in 1..len |-> 0])
       IN  last' = [last EXCEPT !.op = "game_data", !.len = len,
                                !.size = SubSeq(message, 1, 2)]
    /\ UNCHANGED << players, client_streams, snake_parts, foods, tpc, ticks, hs, hs_id,
                    wire, inbuf, closed, out, sent_frames, decoded, consumed, nframes, scn >>
    /\ UNCHANGED hist_vars

NextLength == SendGameData

SpecLength == InitLength /\ [][NextLength]_vars

(* ------------------------------------------------------------------ *)
(* The bot's reader of GAME_DATA                                       *)
(* ------------------------------------------------------------------ *)

\* the loop of Bot::parse_game_data over the snake records: data is the
\* frame after its opcode, i the 0-based index of the next byte, k the
\* number of records read
RECURSIVE parse_snakes(_, _, _, _, _, _)
parse_snakes(data, my_id, snake_amount, k, i, in_fast_mode) ==
    IF k >= snake_amount THEN [in_fast_mode |-> in_fast_mode, i |-> i]
    ELSE LET id == data[i + 1] * 256 + data[i + 2]
             i2 == i + data[i + 3]
         IN  parse_snakes(data, my_id, snake_amount, k + 1, i2 + 12,
                          IF id = my_id THEN data[i2 + 8] = 1 ELSE in_fast_mode)

\* the in_fast_mode of Bot::parse_game_data
parse_game_data(data, my_id) ==
    parse_snakes(data, my_id, data[1] * 256 + data[2], 0, 2, FALSE).in_fast_mode

\* a snake of three parts that goes right with its head at head, after a
\* move; no snake that is in fast mode when move_snakes starts is in the
\* registry when it ends (C5), so fast_mode is FALSE at the broadcast
BotSnake(nickname, head) ==
    [nickname |-> nickname, direction |-> Right, last_direction |-> Right,
     parts |-> << << head[1] - 2, head[2] >>, << head[1] - 1, head[2] >>, head >>,
     kills |-> 0, score |-> 0, fast_mode |-> FALSE]

\* the frame after its opcode that send_data_to_players builds for snake id
\* of the registry P when the view of the snake holds its own three parts
\* and nothing else
OwnViewFrame(P, ids, id) ==
    shared_bytes(P, ids)
        \o to_be_bytes(0)
        \o to_be_bytes(3)
        \o Flatten([n \in 1..3 |-> << i8_byte(n - 3), i8_byte(0) >> \o to_be_bytes(id)], 4)
        \o to_be_bytes(P[id].parts[3][1]) \o to_be_bytes(P[id].parts[3][2])

\* columns of the head of the bot's snake in a world 600 fields wide
BotHeadX == {2, 19, 255, 256, 300, 511, 512, 599}

\* SpecBot: a bot is in a game on a world of 600 by 600 fields, alone or
\* with another snake far from it, and reads the frame of a broadcast
InitBot ==
    \E x \in BotHeadX : \E y \in {0, 300} : \E my_id \in {1, 2} :
    \E nickname \in { <<98>>, <<98, 111, 116, 95, 49, 48, 48, 48>> } :
    \E others \in { {}, {<<100, 100>>}, {<<400, 100>>} } :
    \E first \in BOOLEAN :
        LET mine == With(<<>>, my_id, BotSnake(nickname, <<x, y>>))
            P == IF others = {} THEN mine
                 ELSE With(mine, 3 - my_id, BotSnake(<<65>>, CHOOSE h \in others : TRUE))
            ids == IF others = {} THEN <<my_id>>
                   ELSE IF first THEN <<my_id, 3 - my_id>> ELSE <<3 - my_id, my_id>>
        IN  /\ (others = {} => first)
            /\ InitState([max_ticks |-> 0],
                         [op |-> "none", my_id |-> my_id, P |-> P,
                          data |-> OwnViewFrame(P, ids, my_id), in_fast_mode |-> FALSE])

\* Bot::handle_server_data on a GAME_DATA frame, up to the call of turn
BotParse ==
    /\ last.op = "none"
    /\ last' = [last EXCEPT !.op = "parsed", !.in_fast_mode = parse_game_data(last.data, last.my_id)]
    /\ UNCHANGED << players, client_streams, snake_parts, foods, tpc, ticks, hs, hs_id,
                    wire, inbuf, closed, out, sent_frames, decoded, consumed, nframes, scn >>
    /\ UNCHANGED hist_vars

NextBot == BotParse

SpecBot == InitBot /\ [][NextBot]_vars

NextAddFood == AddFoodEnter \/ AddFoodWalk \/ AddFoodPut

\* the thread that runs add_food is not stopped for ever
SpecAddFood == InitAddFood /\ [][NextAddFood]_vars /\ WF_vars(NextAddFood)

NextFoods == ScoreToFoodsEnter \/ ScoreToFoodsIter

SpecFoods == InitFoods /\ [][NextFoods]_vars

(* ------------------------------------------------------------------ *)
(* Properties                                                          *)
(* ------------------------------------------------------------------ *)

Cell(k) == <<k % WorldW, k \div WorldW>>

PartsOf(id) == {players[id].parts[i] : i \in 1..Len(players[id].parts)}

\* C1: single occupancy of the snake grid. Every cell of snake_parts that is
\* not 0 holds the id of a live player whose parts contain the cell; every
\* part of every live player has its id in snake_parts; no cell occurs twice
\* in one snake's parts, nor in the parts of two snakes.
C1_SingleOccupancy ==
    /\ \A k \in DOMAIN snake_parts :
          snake_parts[k] \in DOMAIN players /\ Cell(k) \in PartsOf(snake_parts[k])
    /\ \A id \in DOMAIN players :
          /\ \A i \in 1..Len(players[id].parts) :
                At(snake_parts, sfield_index(players[id].parts[i])) = id
          /\ \A i, j \in 1..Len(players[id].parts) :
                players[id].parts[i] = players[id].parts[j] => i = j
    /\ \A a, b \in DOMAIN players : a # b => PartsOf(a) \cap PartsOf(b) = {}

\* two clients joined, one snake was removed, the other has moved
C1_Witness ==
    /\ hs[1] = "joined" /\ hs[2] = "joined"
    /\ ticks >= 1
    /\ Cardinality(DOMAIN players) = 1
    /\ \E id \in DOMAIN players : Len(players[id].parts) >= 4

\* C2: food-snake disjointness. Whenever a cell of snake_parts is not 0, its
\* four food sub-cells are 0.
C2_FoodSnakeDisjoint ==
    \A k \in DOMAIN snake_parts : FoodAt(foods, Cell(k)) = 0

\* a snake with a score was removed by the drain and dropped its food while
\* another snake is alive
C2_Witness ==
    /\ last.op = "read"
    /\ tpc = "move"
    /\ \E i \in 1..Len(last.deaths) : last.deaths[i].score > 0
    /\ players # <<>>
    /\ foods # <<>>

\* C3: conservation on death. For every removal of a snake the total food
\* after the death handler is the total before plus the dead snake's score,
\* and no other player's record changes.
C3_DeathConserves ==
    \A i \in 1..Len(last.deaths) :
        /\ last.deaths[i].food_after = last.deaths[i].food_before + last.deaths[i].score
        /\ last.deaths[i].others_kept

\* a snake shorter than calc_length of its score was removed: part of its
\* food went through add_food
C3_Witness ==
    \E i \in 1..Len(last.deaths) :
        /\ last.deaths[i].score > 0
        /\ Len(last.pre[last.deaths[i].id].parts) < calc_length(last.deaths[i].score)

\* C4: 180-degree prohibition. The direction a snake has when move_snakes
\* starts is never the opposite of its last_direction at that moment.
C4_NoReversal ==
    last.op = "move" =>
        \A id \in DOMAIN last.pre :
            ~is_opposite_of(last.pre[id].direction, last.pre[id].last_direction)

\* a snake moved after the drain decoded two CHANGE_DIRECTION frames of its
\* client, the second one asking for the opposite of last_direction
C4_Witness ==
    /\ last.op = "move"
    /\ \E c \in Clients :
          /\ hs_id[c] \in DOMAIN last.pre
          /\ Len(decoded[c]) = 2
          /\ Len(decoded[c][1]) = 2 /\ decoded[c][1][1] = MAGIC_NET_CHANGE_DIRECTION
          /\ Len(decoded[c][2]) = 2 /\ decoded[c][2][1] = MAGIC_NET_CHANGE_DIRECTION
          /\ last.pre[hs_id[c]].direction = from_byte(decoded[c][1][2])
          /\ is_opposite_of(from_byte(decoded[c][2][2]), last.pre[hs_id[c]].last_direction)
          /\ last.pre[hs_id[c]].direction # last.pre[hs_id[c]].last_direction

Head2(pl, n) ==
    LET head == pl.parts[Len(pl.parts)]
        dv == to_vector(pl.direction)
    IN  << (head[1] + n * dv[1] + n * WorldW) % WorldW, (head[2] + n * dv[2] + n * WorldH) % WorldH >>

\* the cells a snake is to enter in a tick
Targets(pl) == IF FastNow(pl) THEN {Head2(pl, 1), Head2(pl, 2)} ELSE {Head2(pl, 1)}

\* the cells of Targets were empty before the movement and no other snake
\* was to enter them
FreeAhead(P, id) ==
    \A t \in Targets(P[id]) :
        /\ \A j \in DOMAIN P : \A i \in 1..Len(P[j].parts) : P[j].parts[i] # t
        /\ \A j \in DOMAIN P : j # id => t \notin Targets(P[j])

\* C5: fast-mode movement. A snake in fast mode whose two cells ahead are
\* empty and claimed by no other snake stays alive and its head ends two
\* cells ahead; a snake not in fast mode whose cell ahead is free advances
\* one cell.
C5_FastModeMoves ==
    last.op = "move" =>
        \A id \in DOMAIN last.pre :
            FreeAhead(last.pre, id) =>
                /\ id \in DOMAIN players
                /\ players[id].parts[Len(players[id].parts)]
                     = Head2(last.pre[id], IF FastNow(last.pre[id]) THEN 2 ELSE 1)

\* C6: the tick loop is never aborted. The main thread never panics.
C6_NeverAborted == tpc # "panicked"

ClaimantsOf(field) == {last.claims[i][2] : i \in {j \in 1..Len(last.claims) : last.claims[j][1] = field}}

\* the crash deaths of snakes that were the only claimant of their field
SoloCrashes ==
    {i \in 1..Len(last.deaths) :
        \E k \in 1..Len(last.claims) :
            /\ last.claims[k][2] = last.deaths[i].id
            /\ ClaimantsOf(last.claims[k][1]) = {last.deaths[i].id}}

\* C7: head-on-head crash. When two or more distinct snakes claim the same
\* cell in one tick, every claimant is removed as crashed, is sent DEATH and
\* drops food totalling its score, and no kills counter grows by more than
\* the crashes into occupied cells account for.
C7_HeadOnCrash ==
    last.op = "move" =>
        /\ \A field \in ClaimedFields(last.claims) :
              Cardinality(ClaimantsOf(field)) >= 2 =>
                  \A id \in ClaimantsOf(field) :
                      /\ id \notin DOMAIN players
                      /\ \E i \in 1..Len(last.deaths) :
                            /\ last.deaths[i].id = id
                            /\ last.deaths[i].cause = "crash"
                            /\ last.deaths[i].food_after
                                 = last.deaths[i].food_before + last.deaths[i].score
                            /\ \E k \in 1..Len(out[last.deaths[i].conn]) :
                                  out[last.deaths[i].conn][k].op = MAGIC_NET_DEATH
        /\ \A j \in DOMAIN players \cap DOMAIN last.pre :
              players[j].kills - last.pre[j].kills <= Cardinality(SoloCrashes)

\* C8: JOINED_GAME is the first frame written to the connection of a client
\* that was registered.
C8_JoinedFirst ==
    \A c \in Clients :
        (hs[c] \in {"inserted", "joined"} /\ out[c] # <<>>)
            => out[c][1].op = MAGIC_NET_JOINED_GAME

\* C9: length law. calc_length returns at least 3 for every score.
C9_LengthAtLeast3 ==
    last.op = "calc_length" => last.length >= 3

\* C9 as the code has it: calc_length(s) is the ceiling of the square root
\* of s, with no floor: 0 for s = 0, below 3 for s <= 4.
C9_LengthIsCeilSqrt ==
    last.op = "calc_length" =>
        /\ last.length * last.length >= last.score
        /\ last.length = 0 \/ (last.length - 1) * (last.length - 1) < last.score
        /\ (last.score <= 4) => last.length < 3

\* calc_length was applied to score 0 and returned 0
C9_Witness ==
    last.op = "calc_length" /\ last.score = 0 /\ last.length = 0

RECURSIVE EncodedLen(_)
EncodedLen(frames) ==
    IF frames = <<>> THEN 0 ELSE Len(client_frame(Head(frames))) + EncodedLen(Tail(frames))

\* C10: partial frames are not lost. On a connection that is still
\* registered the drain has consumed exactly the bytes of the frames it
\* decoded, and the frames it decoded are the first frames the client sent.
C10_PartialFramesKept ==
    \A c \in Clients :
        Registered(c) =>
            /\ consumed[c] = EncodedLen(decoded[c])
            /\ Len(decoded[c]) <= Len(sent_frames[c])
            /\ decoded[c] = SubSeq(sent_frames[c], 1, Len(decoded[c]))

\* the positions of the DEATH frames written to connection c
DeathFrames(c) == {k \in 1..Len(out[c]) : out[c][k].op = MAGIC_NET_DEATH}

\* C11: death notification. A DEATH frame is the last frame written to its
\* connection (so there is at most one and nothing follows it); a snake
\* removed as crashed has a DEATH frame on its connection, a snake removed
\* because of EXIT or a read error has none.
C11_DeathNotification ==
    /\ \A c \in Clients : \A k \in DeathFrames(c) : k = Len(out[c])
    /\ \A i \in 1..Len(last.deaths) :
          IF last.deaths[i].cause = "crash"
          THEN DeathFrames(last.deaths[i].conn) # {}
          ELSE DeathFrames(last.deaths[i].conn) = {}

\* C12: death handling runs once. In one step of the tick loop no id is
\* scheduled for removal twice, no id is removed twice, and every id
\* scheduled for removal is removed (the loop is not cut short on an id
\* whose record or stream is already gone).
C12_RemovedOnce ==
    /\ \A i, j \in 1..Len(last.crashed) : last.crashed[i] = last.crashed[j] => i = j
    /\ \A i, j \in 1..Len(last.deaths) : last.deaths[i].id = last.deaths[j].id => i = j
    /\ \A i \in 1..Len(last.crashed) :
          \E j \in 1..Len(last.deaths) : last.deaths[j].id = last.crashed[i]

(* ------------------------------------------------------------------ *)
(* Handshake refusals, capacity, ids                                   *)
(* ------------------------------------------------------------------ *)

\* connection c asked to play in its first frame
AskedToPlay(c) == request[c] # <<>> /\ request[c][1] = MAGIC_NET_REQUEST_TO_PLAY

\* connection c asked for the server status in its first frame
AskedStatus(c) == request[c] # <<>> /\ request[c][1] = MAGIC_NET_SERVER_STATUS

\* what was written to connection c is one ERROR frame with a reason
OneError(c) ==
    /\ Len(out[c]) = 1
    /\ out[c][1].op = MAGIC_NET_ERROR
    /\ out[c][1].body # ""

\* C13 as stated: every handshake that ends in neither a join nor a status
\* reply, a malformed first frame (empty payload, unknown opcode) included,
\* is answered with one ERROR frame before the connection is closed.
C13_ErrorReply ==
    \A c \in Clients : hs[c] = "closed" /\ ~AskedStatus(c) => OneError(c)

\* C13: a request to play that is refused (nickname no UTF-8, nickname empty
\* or longer than 10 bytes after escaping, server full) is answered with one
\* ERROR frame and joins nobody; a first frame with an empty payload or an
\* unknown opcode is answered with nothing at all.
C13_RefusalReply ==
    \A c \in Clients :
        hs[c] = "closed" =>
            /\ hs_id[c] = 0
            /\ AskedToPlay(c) => OneError(c)
            /\ ~AskedToPlay(c) /\ ~AskedStatus(c) => out[c] = <<>>

\* a nickname of 3 bytes that is too long after escaping was refused, and a
\* connection with an unknown opcode was closed
C13_Witness ==
    \E c, d \in Clients :
        /\ hs[c] = "closed" /\ request[c] = <<MAGIC_NET_REQUEST_TO_PLAY, 1, 1, 1>>
        /\ out[c] = <<Frame(MAGIC_NET_ERROR, "nickname too short/long")>>
        /\ hs[d] = "closed" /\ request[d] = <<7>>

\* the nickname of the request of connection c passes the validation
GoodNickname(bytes) ==
    /\ from_utf8_ok(Tail(bytes))
    /\ escape_default(Tail(bytes)) # <<>>
    /\ Len(escape_default(Tail(bytes))) <= 10

\* the handshake thread of connection c runs its critical section in this step
Handshakes(c) == hs[c] = "idle" /\ hs'[c] # "idle"

C16_SmallestFreeId ==
    [][\A c \in Clients :
          Handshakes(c) /\ hs'[c] = "inserted"
          => /\ hs_id'[c] >= 1
             /\ hs_id'[c] \notin DOMAIN players
             /\ \A j \in 1..(hs_id'[c] - 1) : j \in DOMAIN players
             /\ DOMAIN players' = DOMAIN players \cup {hs_id'[c]}
             /\ DOMAIN client_streams' = DOMAIN client_streams \cup {hs_id'[c]}
             /\ client_streams'[hs_id'[c]] = c]_vars

\* the id of a removed snake was given to a later connection while a snake
\* with a greater id was alive
C16_Witness ==
    \E c, d, e \in Clients :
        /\ c # d
        /\ removed[c] # "no"
        /\ hs_id[d] = hs_id[c]
        /\ Registered(d)
        /\ Registered(e)
        /\ hs_id[e] > hs_id[d]

(* ------------------------------------------------------------------ *)
(* Write failures                                                      *)
(* ------------------------------------------------------------------ *)

Idle(c) == hs[c] \in {"inserted", "joined"} /\ sent_frames[c] = <<>> /\ ~closed[c]

\* snake id went through the last step of the main thread and did not crash
\* in it
Survived(id) ==
    /\ id \in DOMAIN last.pre
    /\ id \in DOMAIN players
    /\ \A i \in 1..Len(last.deaths) : last.deaths[i].id # id
    /\ \A i \in 1..Len(last.crashed) : last.crashed[i] # id

C18_FramingRoundTrip ==
    last.op \in {"sent", "read", "failed"} =>
        /\ last.op # "failed"
        /\ last.frames = SubSeq(scn.payloads, 1, Len(last.frames))
        /\ Len(last.frames) = Len(scn.payloads) => last.stream = <<>>

\* the client has read a payload of 256 bytes and then one of 1 byte, as
\* they were written
C18_Witness ==
    /\ last.op = "read"
    /\ scn.side = "server"
    /\ Len(last.frames) = 2
    /\ Len(last.frames[1]) = MaxU8 + 1
    /\ Len(last.frames[2]) = 1
    /\ last.frames = scn.payloads

(* ------------------------------------------------------------------ *)
(* Removal and movement                                                *)
(* ------------------------------------------------------------------ *)

\* C19: destruction is complete. Every id a cell of S holds is the key of a
\* player record that lists the cell among its parts, so no cell holds the
\* id of a removed player; the stream table and the registry have the same
\* keys; a connection whose snake was removed, for whatever cause, is in
\* neither, and the cells of all the parts the snake had before the step
\* that removed it, those beyond calc_length(score) included, hold nothing
\* right after that step.
C19_DestructionComplete ==
    /\ \A k \in DOMAIN snake_parts :
          /\ snake_parts[k] \in DOMAIN players
          /\ Cell(k) \in PartsOf(snake_parts[k])
    /\ DOMAIN client_streams = DOMAIN players
    /\ \A c \in Clients :
          removed[c] # "no" =>
              /\ ~Registered(c)
              /\ \A id \in DOMAIN client_streams : client_streams[id] # c
    /\ \A i \in 1..Len(last.deaths) :
          LET d == last.deaths[i]
              old == last.pre[d.id]
          IN  tpc \in {"move", "send", "panicked"} /\ d.id \notin DOMAIN players
              => \A j \in 1..Len(old.parts) : sfield_index(old.parts[j]) \notin DOMAIN snake_parts

\* a snake with more parts than calc_length(score) was removed in the last
\* step, and none of the cells it lay on holds anything
C19_Witness ==
    \E i \in 1..Len(last.deaths) :
        LET d == last.deaths[i]
            old == last.pre[d.id]
        IN  /\ Len(old.parts) > calc_length(old.score)
            /\ removed[d.conn] = d.cause
            /\ d.id \notin DOMAIN players
            /\ d.id \notin DOMAIN client_streams
            /\ \A j \in 1..Len(old.parts) : sfield_index(old.parts[j]) \notin DOMAIN snake_parts

\* the cell next to the head of pl along its direction on the torus
Torus(pl) ==
    LET head == pl.parts[Len(pl.parts)]
        dv == to_vector(pl.direction)
    IN  << (head[1] + dv[1]) % WorldW, (head[2] + dv[2]) % WorldH >>

\* C20: toroidal movement. Every part of every snake lies in [0, W) x [0, H);
\* every head position claimed in move_snakes is the head before the step
\* plus the direction vector, modulo W and H; a snake that went through the
\* step without crashing has its head there.
C20_ToroidalMovement ==
    /\ \A id \in DOMAIN players : \A i \in 1..Len(players[id].parts) :
          /\ players[id].parts[i][1] \in 0..(WorldW - 1)
          /\ players[id].parts[i][2] \in 0..(WorldH - 1)
    /\ \A k \in DOMAIN snake_parts : k \in 0..(WorldW * WorldH - 1)
    /\ last.op = "move" =>
          /\ \A i \in 1..Len(last.claims) :
                last.claims[i][1] = Torus(last.pre[last.claims[i][2]])
          /\ \A id \in DOMAIN players :
                Survived(id) => players[id].parts[Len(players[id].parts)] = Torus(last.pre[id])

\* a snake with its head at x = 0 facing Left has moved to x = W - 1 in the
\* same row
C20_Witness ==
    /\ last.op = "move"
    /\ \E id \in DOMAIN players :
          /\ Survived(id)
          /\ last.pre[id].direction = Left
          /\ last.pre[id].parts[Len(last.pre[id].parts)][1] = 0
          /\ players[id].parts[Len(players[id].parts)]
                = << WorldW - 1, last.pre[id].parts[Len(last.pre[id].parts)][2] >>

(* ------------------------------------------------------------------ *)
(* The phases of move_snakes                                           *)
(* ------------------------------------------------------------------ *)

\* the number of head claims snake id made in the last move_snakes
ClaimsBy(id) == Cardinality({i \in 1..Len(last.claims) : last.claims[i][2] = id})

\* C21: fast-mode burn. After the first loop of move_snakes a snake that
\* entered the tick with fast_mode set and score 0 has fast_mode cleared and
\* score 0; one that entered it with fast_mode set and score >= 1 has
\* fast_mode set and its score down by exactly 1, though it claimed two head
\* positions; one that entered it with fast_mode clear keeps its score; no
\* score is below 0.
C21_FastModeBurn ==
    /\ \A id \in DOMAIN players : players[id].score >= 0
    /\ last.op = "move" =>
          \A id \in DOMAIN last.pre :
              LET old == last.pre[id]
                  new == last.mid.P[id]
              IN  /\ new.score >= 0
                  /\ old.fast_mode /\ old.score = 0
                     => ~new.fast_mode /\ new.score = 0 /\ ClaimsBy(id) = 1
                  /\ old.fast_mode /\ old.score >= 1
                     => new.fast_mode /\ new.score = old.score - 1 /\ ClaimsBy(id) = 2
                  /\ ~old.fast_mode
                     => ~new.fast_mode /\ new.score = old.score /\ ClaimsBy(id) = 1

\* a snake in fast mode with a positive score went through the first loop of
\* move_snakes: two claims, one score less
C21_Witness ==
    /\ last.op = "move"
    /\ \E id \in DOMAIN last.pre :
          /\ last.pre[id].fast_mode
          /\ last.pre[id].score >= 1
          /\ ClaimsBy(id) = 2
          /\ last.mid.P[id].score = last.pre[id].score - 1

\* the cells claimed by exactly one snake in the last move_snakes whose S
\* entry after the tail trims is taken, and those whose S entry is 0
SoleTaken ==
    {f \in ClaimedFields(last.claims) :
        Cardinality(ClaimantsOf(f)) = 1 /\ At(last.mid.S, sfield_index(f)) # 0}
SoleFree ==
    {f \in ClaimedFields(last.claims) :
        Cardinality(ClaimantsOf(f)) = 1 /\ At(last.mid.S, sfield_index(f)) = 0}

\* the one snake that claims cell f
Claimant(f) == CHOOSE id \in ClaimantsOf(f) : TRUE

\* C22: crash into an occupied cell. In the collision loop of move_snakes a
\* snake that is the only one to claim a cell whose S entry is not 0 after
\* the tail trims is put on the crash list and keeps its parts; the kills of
\* every snake go up by the number of such cells it occupies that a snake
\* other than itself claims, and by nothing else.
C22_CrashIntoOccupied ==
    last.op = "move" =>
        /\ \A f \in SoleTaken :
              /\ \E i \in 1..Len(last.crashed) : last.crashed[i] = Claimant(f)
              /\ last.res.P[Claimant(f)].parts = last.mid.P[Claimant(f)].parts
        /\ \A id \in DOMAIN last.res.P :
              last.res.P[id].kills = last.mid.P[id].kills
                  + Cardinality({f \in SoleTaken :
                        At(last.mid.S, sfield_index(f)) = id /\ Claimant(f) # id})

\* C23: eating. In the collision loop of move_snakes a snake that is the
\* only one to claim a cell whose S entry is 0 gets the sum of the four food
\* sub-cells of the cell added to its score and the cell appended as its new
\* head; S at the cell becomes its id and the four sub-cells become 0; S
\* and F change nowhere else, and the score and the parts of every other
\* snake stay as they were.
C23_Eating ==
    last.op = "move" =>
        /\ \A f \in SoleFree :
              /\ last.res.P[Claimant(f)].score
                    = last.mid.P[Claimant(f)].score + FoodAt(last.mid.F, f)
              /\ last.res.P[Claimant(f)].parts = Append(last.mid.P[Claimant(f)].parts, f)
              /\ At(last.res.S, sfield_index(f)) = Claimant(f)
              /\ FoodAt(last.res.F, f) = 0
        /\ \A k \in (DOMAIN last.mid.S) \cup (DOMAIN last.res.S) :
              (\A f \in SoleFree : sfield_index(f) # k)
              => At(last.res.S, k) = At(last.mid.S, k)
        /\ \A k \in (DOMAIN last.mid.F) \cup (DOMAIN last.res.F) :
              (\A f \in SoleFree : \A q \in 1..4 : sf_to_ff_index(f)[q] # k)
              => At(last.res.F, k) = At(last.mid.F, k)
        /\ \A id \in DOMAIN last.res.P :
              (\A f \in SoleFree : Claimant(f) # id)
              => /\ last.res.P[id].score = last.mid.P[id].score
                 /\ last.res.P[id].parts = last.mid.P[id].parts

\* what the collision loop leaves behind: the set of crashed snakes, the
\* player records, S and F
Resolved(st) ==
    [crashed |-> {st.crashed[i] : i \in 1..Len(st.crashed)}, P |-> st.P, S |-> st.S, F |-> st.F]

\* the states the first loop of move_snakes can leave when it runs now
AfterIntent ==
    {intent_all(ids, 1, TickState, rq, rpos) :
        ids \in Orders(DOMAIN players), rq \in MoveQuadRng, rpos \in FoodRng}

\* C24: resolution is order-independent. Whenever move_snakes is about to
\* run, for every outcome of its first loop the collision loop leaves the
\* same crashed set, player records (kills, scores, parts), S and F for
\* every order in which it visits the claimed cells.
C24_OrderIndependent ==
    tpc = "move" /\ Settled =>
        \A st1 \in AfterIntent :
            \A f1, f2 \in Orders(ClaimedFields(st1.claims)) :
                Resolved(resolve_all(f1, 1, st1)) = Resolved(resolve_all(f2, 1, st1))

\* move_snakes is about to run with two claimed cells, one of which is a
\* crash into another snake that earns it a kill, the other a free cell
C24_Witness ==
    /\ tpc = "move"
    /\ Settled
    /\ \E st1 \in AfterIntent :
          /\ Cardinality(ClaimedFields(st1.claims)) = 2
          /\ \E f \in Orders(ClaimedFields(st1.claims)) :
                LET st2 == resolve_all(f, 1, st1)
                IN  /\ Len(st2.crashed) = 1
                    /\ \E id \in DOMAIN st2.P :
                          /\ st2.P[id].kills = st1.P[id].kills + 1
                          /\ Len(st2.P[id].parts) = Len(st1.P[id].parts) + 1

(* ------------------------------------------------------------------ *)
(* Commands                                                            *)
(* ------------------------------------------------------------------ *)

\* the frames the last read_players_input decoded from connection c
FramesOf(c) == SubSeq(decoded[c], last.predec[c] + 1, Len(decoded[c]))

\* two directions are opposite: their vectors add up to nothing
Opposite(a, b) ==
    /\ to_vector(a)[1] + to_vector(b)[1] = 0
    /\ to_vector(a)[2] + to_vector(b)[2] = 0

IsDirectionFrame(f) == Len(f) = 2 /\ f[1] = MAGIC_NET_CHANGE_DIRECTION
IsToggleFrame(f) == f = <<MAGIC_NET_TOGGLE_FAST>>

\* the direction a record has after the frames fs by the rule of C25
RECURSIVE DirectionAfter(_, _)
DirectionAfter(pl, fs) ==
    IF fs = <<>> THEN pl.direction
    ELSE IF IsDirectionFrame(Head(fs)) /\ ~Opposite(from_byte(Head(fs)[2]), pl.last_direction)
    THEN DirectionAfter([pl EXCEPT !.direction = from_byte(Head(fs)[2])], Tail(fs))
    ELSE DirectionAfter(pl, Tail(fs))

\* the fast_mode a record has after the frames fs by the rule of C26
RECURSIVE FastAfter(_, _)
FastAfter(pl, fs) ==
    IF fs = <<>> THEN pl.fast_mode
    ELSE IF IsToggleFrame(Head(fs)) /\ pl.score >= 1
    THEN FastAfter([pl EXCEPT !.fast_mode = ~pl.fast_mode], Tail(fs))
    ELSE FastAfter(pl, Tail(fs))

\* connection c and its snake went through the last read_players_input
Drained(c) ==
    /\ last.op = "read"
    /\ Registered(c)
    /\ Survived(hs_id[c])

\* C25: direction command. After a drain the direction of a snake is what
\* the CHANGE_DIRECTION frames decoded in it make of the direction before:
\* a frame whose direction is the opposite of last_direction changes
\* nothing and the frames after it are handled, any other sets direction
\* to its direction (bytes 0, 1, 2 are Left, Up, Right, all others Down);
\* last_direction, parts, score, kills and nickname are what they were, and
\* so is fast_mode when none of the frames is a TOGGLE_FAST.
C25_DirectionCommand ==
    \A c \in Clients :
        Drained(c) =>
            LET new == players[hs_id[c]]
                old == last.pre[hs_id[c]]
            IN  /\ new.direction = DirectionAfter(old, FramesOf(c))
                /\ new.last_direction = old.last_direction
                /\ new.parts = old.parts
                /\ new.score = old.score
                /\ new.kills = old.kills
                /\ new.nickname = old.nickname
                /\ (\A i \in 1..Len(FramesOf(c)) : ~IsToggleFrame(FramesOf(c)[i]))
                   => new.fast_mode = old.fast_mode

\* one drain decoded a CHANGE_DIRECTION to the opposite of last_direction
\* and after it a CHANGE_DIRECTION Up: the snake faces Up
C25_Witness ==
    \E c \in Clients :
        /\ Drained(c)
        /\ Len(FramesOf(c)) = 2
        /\ IsDirectionFrame(FramesOf(c)[1])
        /\ Opposite(from_byte(FramesOf(c)[1][2]), last.pre[hs_id[c]].last_direction)
        /\ FramesOf(c)[2] = <<MAGIC_NET_CHANGE_DIRECTION, Up>>
        /\ players[hs_id[c]].direction = Up
        /\ last.pre[hs_id[c]].direction # Up

\* C26: fast-mode toggle. After a drain the fast_mode of a snake is what
\* the TOGGLE_FAST frames decoded in it make of the fast_mode before: a
\* frame leaves it as it is when the score is 0 and negates it when the
\* score is at least 1; parts, score, kills, nickname and last_direction
\* are what they were, and so is direction when none of the frames is a
\* CHANGE_DIRECTION.
C26_FastToggle ==
    \A c \in Clients :
        Drained(c) =>
            LET new == players[hs_id[c]]
                old == last.pre[hs_id[c]]
            IN  /\ new.fast_mode = FastAfter(old, FramesOf(c))
                /\ new.last_direction = old.last_direction
                /\ new.parts = old.parts
                /\ new.score = old.score
                /\ new.kills = old.kills
                /\ new.nickname = old.nickname
                /\ (\A i \in 1..Len(FramesOf(c)) : ~IsDirectionFrame(FramesOf(c)[i]))
                   => new.direction = old.direction

\* one drain decoded two TOGGLE_FAST frames from a snake with a positive
\* score: fast_mode is clear again
C26_Witness ==
    \E c \in Clients :
        /\ Drained(c)
        /\ ~last.pre[hs_id[c]].fast_mode
        /\ ~players[hs_id[c]].fast_mode
        /\ last.pre[hs_id[c]].score >= 1
        /\ FramesOf(c) = << <<MAGIC_NET_TOGGLE_FAST>>, <<MAGIC_NET_TOGGLE_FAST>> >>

(* ------------------------------------------------------------------ *)
(* Spawn                                                               *)
(* ------------------------------------------------------------------ *)

\* the handshake thread of connection c registers a snake in this step
Spawns(c) == Handshakes(c) /\ hs'[c] = "inserted"

\* the distance of a and b on a ring of n cells
RingDist(a, b, n) == Min((a - b + n) % n, (b - a + n) % n)

\* the toroidal Chebyshev distance of position p and the field with index k
ChebyshevDist(p, k) ==
    LET dx == RingDist(p[1], k % WorldW, WorldW)
        dy == RingDist(p[2], k \div WorldW, WorldH)
    IN  IF dx > dy THEN dx ELSE dy

\* position p moved back n steps along the vector dv, on the torus
Behind(p, dv, n) ==
    << (p[1] - n * dv[1] + 2 * WorldW) % WorldW, (p[2] - n * dv[2] + 2 * WorldH) % WorldH >>

\* C27: spawn clearance. In the step that registers a snake its record
\* holds three parts, the head last, the second the head moved back one
\* step along the direction and the first the head moved back two steps,
\* on the torus; direction and last_direction are equal; the three fields
\* hold the id after the step; and before the step no field within
\* toroidal Chebyshev distance SpawnRadius of any of the three held an id.
C27_SpawnClearance ==
    [][\A c \in Clients :
          Spawns(c) =>
              LET id == hs_id'[c]
                  pl == players'[id]
                  dv == to_vector(pl.direction)
              IN  /\ Len(pl.parts) = 3
                  /\ pl.parts[2] = Behind(pl.parts[3], dv, 1)
                  /\ pl.parts[1] = Behind(pl.parts[3], dv, 2)
                  /\ pl.last_direction = pl.direction
                  /\ \A i \in 1..3 :
                        /\ At(snake_parts', sfield_index(pl.parts[i])) = id
                        /\ \A k \in DOMAIN snake_parts :
                              ChebyshevDist(pl.parts[i], k) > SpawnRadius]_vars

\* a snake was registered while another one was in the world, and none of
\* the cells the search could have started next to became its head: the
\* search rejected candidates before it found this one
C27_Witness ==
    \E c \in Clients :
        /\ hs[c] = "inserted"
        /\ Cardinality(DOMAIN players) = 2
        /\ \A rng \in SpawnRng : players[hs_id[c]].parts[3] # SearchHead(rng[1], 0)

\* the amounts of the four food sub-cells of field p
SubCells(F, p) ==
    { <<i, At(F, i)>> : i \in { 2 * p[1] + dx + (4 * p[2] + dy) * WorldW :
                                 dx \in {0, 1}, dy \in {0, 2} } }

\* the sum of the food under the three parts ps
FoodUnder(F, ps) ==
    LET cells == UNION { SubCells(F, ps[i]) : i \in 1..3 }
    IN  SumOver(cells, [x \in cells |-> x[2]])

\* C28: spawn food credit. In the step that registers a snake its score is
\* the sum of the twelve food sub-cells under its three parts before the
\* step, these sub-cells hold no food after it and every other sub-cell
\* holds what it held, and the record has kills 0 and fast_mode clear.
C28_SpawnFoodCredit ==
    [][\A c \in Clients :
          Spawns(c) =>
              LET pl == players'[hs_id'[c]]
                  under == UNION { {x[1] : x \in SubCells(foods, pl.parts[i])} : i \in 1..3 }
              IN  /\ Cardinality(under) = 12
                  /\ pl.score = FoodUnder(foods, pl.parts)
                  /\ \A k \in under : At(foods', k) = 0
                  /\ \A k \in (DOMAIN foods \cup DOMAIN foods') \ under :
                        At(foods', k) = At(foods, k)
                  /\ pl.kills = 0
                  /\ pl.fast_mode = FALSE]_vars

\* a snake was registered on fields that held food: it starts with the
\* score it ate, and nothing is left under it
C28_Witness ==
    \E c \in Clients :
        /\ hs[c] = "inserted"
        /\ players[hs_id[c]].score = amount_of_foods
        /\ FoodUnder(foods, players[hs_id[c]].parts) = 0
        /\ players[hs_id[c]].kills = 0
        /\ ~players[hs_id[c]].fast_mode

\* the three parts of a snake with head h and direction vector dv are
\* farther than SpawnRadius from every field of S that holds an id
Passes(h, dv, S) ==
    \A n \in 0..2 : \A k \in DOMAIN S : ChebyshevDist(Behind(h, dv, n), k) > SpawnRadius

\* the number of steps in raster order, wrapping, from the cell after start
\* to h: WorldW * WorldH - 1 for start itself
RasterSteps(start, h) ==
    (sfield_index(h) - sfield_index(start) - 1 + WorldW * WorldH) % (WorldW * WorldH)

\* the handshake thread of connection c gets as far as add_player in this
\* step: a request to play with a good nickname while the server is not full
TriesSpawn(c) ==
    /\ Handshakes(c)
    /\ request'[c] # <<>>
    /\ request'[c][1] = MAGIC_NET_REQUEST_TO_PLAY
    /\ GoodNickname(request'[c])
    /\ Cardinality(DOMAIN players) < max_players

\* C29: spawn completeness. A handshake step that gets as far as the spawn
\* search, with start cell and direction drawn by the rng, registers a
\* snake when some cell of the world passes the clearance test as head for
\* that direction, and its head is then the passing cell reached first in
\* raster order, wrapping, from the cell after the start cell, the start
\* cell itself coming last; when no cell passes, the step writes one ERROR
\* frame with the reason "not enough space in world. try again", closes the
\* connection and leaves the registry, the stream table and the world as
\* they were.
C29_SpawnCompleteness ==
    [][\A c \in Clients : \A rng \in scn.spawn_rng :
          TriesSpawn(c) =>
              LET dv == to_vector(rng[2])
                  passing == { h \in (0..(WorldW - 1)) \X (0..(WorldH - 1)) : Passes(h, dv, snake_parts) }
              IN  IF passing = {}
                  THEN /\ hs'[c] = "closed"
                       /\ out'[c] = <<Frame(MAGIC_NET_ERROR, "not enough space in world. try again")>>
                       /\ players' = players
                       /\ client_streams' = client_streams
                       /\ snake_parts' = snake_parts
                       /\ foods' = foods
                  ELSE /\ hs'[c] = "inserted"
                       /\ DOMAIN players' = DOMAIN players \cup {hs_id'[c]}
                       /\ players'[hs_id'[c]].direction = rng[2]
                       /\ players'[hs_id'[c]].parts[3] \in passing
                       /\ \A h \in passing :
                             RasterSteps(rng[1], players'[hs_id'[c]].parts[3]) <= RasterSteps(rng[1], h)]_vars

\* a client asked to play with a good nickname while one snake was in the
\* game and was refused for lack of space: the snake is still alone
C29_Witness ==
    \E c \in Clients :
        /\ request[c] = <<MAGIC_NET_REQUEST_TO_PLAY>> \o Nickname(c)
        /\ hs[c] = "closed"
        /\ out[c] = <<Frame(MAGIC_NET_ERROR, "not enough space in world. try again")>>
        /\ DOMAIN players = {1}
        /\ Len(players[1].parts) = StairLen + 1

(* ------------------------------------------------------------------ *)
(* Death food distribution                                             *)
(* ------------------------------------------------------------------ *)

\* the sum of s[lo..hi], by halves
RECURSIVE SumRange(_, _, _)
SumRange(s, lo, hi) ==
    IF lo > hi THEN 0
    ELSE IF lo = hi THEN s[lo]
    ELSE SumRange(s, lo, (lo + hi) \div 2) + SumRange(s, (lo + hi) \div 2 + 1, hi)

\* the loop of score_to_foods has run i iterations, or all of them
InLoop == last.op = "score_to_foods" /\ last.i >= 1
Returned == last.op = "score_to_foods" /\ last.i = last.count

\* the amount of the latest iteration is the remaining score divided by the
\* number of amounts still to give, rounded up, and a u8 holds it
GreedyAmount ==
    LET a == last.foods[last.i]
        remaining == last.n + a
        left == last.count - (last.i - 1)
    IN  /\ a \in 0..MaxU8
        /\ a * left >= remaining
        /\ (a - 1) * left < remaining \/ (a = 0 /\ remaining = 0)

\* C30 as stated, with the length clamped to 3 parts: score_to_foods
\* returns 4 * max(3, ceil(sqrt(score))) amounts, each the greedy one, whose
\* sum is the score.
C30_FoodsOfClampedLength ==
    /\ InLoop => GreedyAmount
    /\ Returned =>
          /\ Len(last.foods) = 4 * calc_length_clamped(last.score)
          /\ SumRange(last.foods, 1, Len(last.foods)) = last.score

\* C30: death food distribution. score_to_foods returns 4 * ceil(sqrt(score))
\* amounts, none for score 0; each amount is the score not yet given
\* divided by the number of amounts still to give, rounded up, and lies in
\* 0..255; the sum of the amounts is the score.
C30_FoodDistribution ==
    /\ InLoop => GreedyAmount
    /\ Returned =>
          LET length == Len(last.foods) \div 4
          IN  /\ Len(last.foods) = 4 * length
              /\ length * length >= last.score
              /\ length = 0 \/ (length - 1) * (length - 1) < last.score
              /\ SumRange(last.foods, 1, Len(last.foods)) = last.score
              /\ last.n = 0

\* score_to_foods returned for score 4: eight amounts, the first four of
\* them 1
C30_Witness ==
    /\ Returned
    /\ last.score = 4
    /\ last.foods = <<1, 1, 1, 1, 0, 0, 0, 0>>

(* ------------------------------------------------------------------ *)
(* Food placement                                                      *)
(* ------------------------------------------------------------------ *)

\* the food sub-cells of the world
SubCellsOfWorld == (0..(2 * WorldW - 1)) \X (0..(2 * WorldH - 1))

\* sub-cell p has no snake on its field and fewer than 255 foods in F
Placeable(p, S, F) ==
    /\ At(S, (p[1] \div 2) + (p[2] \div 2) * WorldW) = 0
    /\ At(F, p[2] * 2 * WorldW + p[1]) < MaxFood

\* the number of steps in raster order, wrapping, from sub-cell a to p
WalkSteps(a, p) ==
    ((p[2] * 2 * WorldW + p[1]) - (a[2] * 2 * WorldW + a[1]) + 4 * WorldW * WorldH)
        % (4 * WorldW * WorldH)

\* a call of add_food has returned
Placed == last.op = "add_food" /\ last.placed

\* C31: food placement. Every call of add_food in a world with a sub-cell
\* that has no snake on its field and fewer than 255 foods returns; when it
\* has returned, the sub-cell it stopped at was such a sub-cell and the one
\* of them reached first from the random start in raster order, wrapping,
\* that sub-cell holds one food more than before and every other sub-cell
\* and every field of the snake table holds what it held; during the walk
\* nothing changes; and no sub-cell ever holds more than 255 foods.
C31_FoodPlacement ==
    /\ [](\A f \in DOMAIN foods : foods[f] <= MaxFood)
    /\ [](last.op = "add_food" =>
            /\ snake_parts = last.preS
            /\ ~last.placed => foods = last.preF
            /\ last.placed =>
                  /\ Placeable(last.pos, last.preS, last.preF)
                  /\ \A p \in SubCellsOfWorld :
                        Placeable(p, last.preS, last.preF)
                            => WalkSteps(last.start, last.pos) <= WalkSteps(last.start, p)
                  /\ At(foods, ffield_index(last.pos)) = At(last.preF, ffield_index(last.pos)) + 1
                  /\ \A f \in (DOMAIN foods \cup DOMAIN last.preF) \ {ffield_index(last.pos)} :
                        At(foods, f) = At(last.preF, f))
    /\ [](last.op = "add_food" /\ (\E p \in SubCellsOfWorld : Placeable(p, snake_parts, foods))
            => <>Placed)

\* add_food started on a full sub-cell at the end of the last row, walked
\* over the wrap and over the sub-cells under the snake, and put the food
\* on the first sub-cell behind it
C31_Witness ==
    /\ Placed
    /\ last.start = <<38, 39>>
    /\ last.steps >= 6
    /\ last.pos[2] = 0
    /\ At(foods, ffield_index(last.pos)) = At(last.preF, ffield_index(last.pos)) + 1

(* ------------------------------------------------------------------ *)
(* C32: order of the phases of a tick, and the broadcast               *)
(* ------------------------------------------------------------------ *)

\* the 16 bit number at index i of a byte string
U16At(b, i) == b[i] * 256 + b[i + 1]

\* the snake records a reader finds in the bytes b from index i on, n of
\* them; a record that does not fit ends the reading
RECURSIVE SharedRecords(_, _, _)
SharedRecords(b, i, n) ==
    IF n = 0 \/ i + 2 > Len(b) \/ i + 11 + b[i + 2] > Len(b) THEN <<>>
    ELSE LET l == b[i + 2]
         IN  << [id |-> U16At(b, i), nickname |-> SubSeq(b, i + 3, i + 2 + l),
                 score |-> U16At(b, i + 3 + l), kills |-> U16At(b, i + 5 + l),
                 head |-> << U16At(b, i + 7 + l), U16At(b, i + 9 + l) >>,
                 fast_mode |-> b[i + 11 + l] = 1,
                 next |-> i + 12 + l] >>
                 \o SharedRecords(b, i + 12 + l, n - 1)

\* what a record of the shared part says of the snake id of the registry P
RecordOf(P, id, next) ==
    [id |-> id, nickname |-> P[id].nickname, score |-> P[id].score, kills |-> P[id].kills,
     head |-> P[id].parts[Len(P[id].parts)], fast_mode |-> P[id].fast_mode, next |-> next]

\* the bytes b start with the shared part of the registry P: the count of
\* its snakes, and one record for each of them
SharedPartOf(b, P) ==
    /\ Len(b) >= 2
    /\ U16At(b, 1) = Cardinality(DOMAIN P)
    /\ LET recs == SharedRecords(b, 3, U16At(b, 1))
       IN  /\ Len(recs) = Cardinality(DOMAIN P)
           /\ \A id \in DOMAIN P :
                 Cardinality({n \in 1..Len(recs) : recs[n].id = id}) = 1
           /\ \A n \in 1..Len(recs) :
                 recs[n].id \in DOMAIN P /\ recs[n] = RecordOf(P, recs[n].id, recs[n].next)

\* the frames written to connection c in a step
NewFrames(c) == SubSeq(out'[c], Len(out[c]) + 1, Len(out'[c]))

\* connection c belongs to a snake of the registry
Alive(c) == \E id \in DOMAIN players : id \in DOMAIN client_streams /\ client_streams[id] = c

\* the steps of the main thread from one phase to the next
PhaseSteps == { <<"gen", "read">>, <<"read", "move">>, <<"move", "send">>, <<"send", "read">> }

\* C32: the phases of a tick run in the order input drain, movement,
\* broadcast, and the tick ends with the broadcast; a broadcast that
\* completes writes to the connection of every snake alive after the
\* movement exactly one GAME_DATA frame, whose shared part has the count of
\* the alive snakes and exactly one record for each of them, and writes
\* nothing to a connection whose snake was removed
C32_TickOrderAndBroadcast ==
    [][ /\ tpc' # tpc => (<< tpc, tpc' >> \in PhaseSteps \/ tpc' = "panicked")
        /\ ticks' # ticks => (tpc = "send" /\ ticks' = ticks + 1)
        /\ (tpc = "send" /\ tpc' = "read") =>
              \A c \in Clients :
                  /\ Alive(c) =>
                        /\ Len(NewFrames(c)) = 1
                        /\ NewFrames(c)[1].op = MAGIC_NET_GAME_DATA
                        /\ SharedPartOf(NewFrames(c)[1].body, players)
                        /\ SharedRecords(NewFrames(c)[1].body, 3, Cardinality(DOMAIN players))
                               [Cardinality(DOMAIN players)].next = Len(NewFrames(c)[1].body) + 1
                  /\ (~Alive(c) \/ removed[c] # "no") => NewFrames(c) = <<>>
      ]_vars

\* a broadcast went to the one snake left after the other was removed by
\* the movement of the same tick
C32_Witness ==
    /\ last.op = "send"
    /\ tpc = "read"
    /\ \E c, d \in Clients :
          /\ removed[d] = "crash"
          /\ last.pre = players
          /\ Alive(c)
          /\ out[c][Len(out[c])].op = MAGIC_NET_GAME_DATA
          /\ U16At(out[c][Len(out[c])].body, 1) = 1
          /\ \E n \in 1..Len(out[d]) :
                /\ out[d][n].op = MAGIC_NET_GAME_DATA
                /\ U16At(out[d][n].body, 1) = 2
          /\ Len(SelectSeq(out[d], LAMBDA f : f.op = MAGIC_NET_GAME_DATA))
                < Len(SelectSeq(out[c], LAMBDA f : f.op = MAGIC_NET_GAME_DATA))

(* ------------------------------------------------------------------ *)
(* C33: the part of GAME_DATA for one player                           *)
(* ------------------------------------------------------------------ *)

\* the signed value of a byte
S8(v) == IF v >= 128 THEN v - 256 ELSE v

\* the index after the shared part of the bytes b of a frame for n snakes
TailStart(b, n) == IF n = 0 THEN 3 ELSE SharedRecords(b, 3, n)[n].next

\* what a reader finds after the shared part: the food records, the snake
\* part records, and the index after them
TailOf(b, e) ==
    LET nf == U16At(b, e)
        ps == e + 2 + 3 * nf
        ns == U16At(b, ps)
    IN  [nfoods |-> nf, nparts |-> ns,
         foods |-> [j \in 1..nf |-> [x |-> S8(b[e + 3 * j - 1]), y |-> S8(b[e + 3 * j]),
                                     amount |-> b[e + 3 * j + 1]]],
         parts |-> [j \in 1..ns |-> [x |-> S8(b[ps + 4 * j - 2]), y |-> S8(b[ps + 4 * j - 1]),
                                     id |-> U16At(b, ps + 4 * j)]],
         next |-> ps + 2 + 4 * ns]

\* the offsets of the view
ViewOffsets == { <<x, y>> : x \in (-ViewX)..ViewX, y \in (-ViewY)..ViewY }

\* the field of the world under the offset o of the view of the head h
Under(h, o) == << (h[1] + o[1]) % WorldW, (h[2] + o[2]) % WorldH >>

\* the id in the snake table at the field under the offset o
IdUnder(h, o) == At(snake_parts, sfield_index(Under(h, o)))

\* the amount of food in the sub-cell q of the view, in units of half a
\* field: the sub-cell (q[1] % 2, q[2] % 2) of the field under the offset
\* (q[1] \div 2, q[2] \div 2)
FoodUnderView(h, q) ==
    LET c == Under(h, << q[1] \div 2, q[2] \div 2 >>)
    IN  At(foods, ffield_index(<< 2 * c[1] + (q[1] % 2), 2 * c[2] + (q[2] % 2) >>))

\* the records of the tail t are right for the view of the head h: every
\* snake part record names an offset of the view and the id at the field
\* under it, which is not 0; every food record names a sub-cell of an
\* offset of the view whose field holds no snake, and its amount, which is
\* not 0; no two records are for the same place; and there are as many
\* records as there are such places. Hence every offset with a snake has
\* exactly one snake part record and no food record, and every other offset
\* has exactly one food record for each of its sub-cells that has food.
PackedView(t, h) ==
    /\ \A j \in 1..t.nparts :
          /\ << t.parts[j].x, t.parts[j].y >> \in ViewOffsets
          /\ t.parts[j].id # 0
          /\ t.parts[j].id = IdUnder(h, << t.parts[j].x, t.parts[j].y >>)
    /\ \A j \in 1..t.nfoods :
          /\ << t.foods[j].x \div 2, t.foods[j].y \div 2 >> \in ViewOffsets
          /\ IdUnder(h, << t.foods[j].x \div 2, t.foods[j].y \div 2 >>) = 0
          /\ t.foods[j].amount > 0
          /\ t.foods[j].amount = FoodUnderView(h, << t.foods[j].x, t.foods[j].y >>)
    /\ Cardinality({ << t.parts[j].x, t.parts[j].y >> : j \in 1..t.nparts }) = t.nparts
    /\ Cardinality({ << t.foods[j].x, t.foods[j].y >> : j \in 1..t.nfoods }) = t.nfoods
    /\ t.nparts = Cardinality({ o \in ViewOffsets : IdUnder(h, o) # 0 })
    /\ t.nfoods = Cardinality({ q \in ((-2 * ViewX)..(2 * ViewX + 1)) \X ((-2 * ViewY)..(2 * ViewY + 1)) :
                                  /\ IdUnder(h, << q[1] \div 2, q[2] \div 2 >>) = 0
                                  /\ FoodUnderView(h, q) > 0 })

\* the last frame written to the connection of snake id
LastFrame(id) == out[client_streams[id]][Len(out[client_streams[id]])]

\* C33: after a broadcast, the frame of every recipient has after its
\* shared part a food count and that many food records, a snake part count
\* and that many snake part records, and the head of the recipient, and
\* nothing else; for every offset of the view of the recipient, 49 by 29
\* fields around its head on the torus, there is exactly one snake part
\* record with the id in the field under the offset and no food record if
\* the field holds a snake, and otherwise exactly one food record for each
\* of the four sub-cells of the field that has food, with its amount, at
\* twice the offset plus the place of the sub-cell in the field; every
\* relative coordinate is in -128..127
C33_ViewportPacking ==
    (last.op = "send" /\ tpc = "read") =>
        \A id \in DOMAIN players :
            LET b == LastFrame(id).body
                h == players[id].parts[Len(players[id].parts)]
                t == TailOf(b, TailStart(b, Cardinality(DOMAIN players)))
            IN  /\ LastFrame(id).op = MAGIC_NET_GAME_DATA
                /\ SharedPartOf(b, players)
                /\ t.next + 3 = Len(b)
                /\ << U16At(b, t.next), U16At(b, t.next + 2) >> = h
                /\ PackedView(t, h)
                /\ 2 * ViewX + 1 <= 127 /\ -2 * ViewX >= -128
                /\ 2 * ViewY + 1 <= 127 /\ -2 * ViewY >= -128

\* a broadcast to a snake that sees a field with food in its four
\* sub-cells more than once, food at negative offsets, and itself
C33_Witness ==
    /\ last.op = "send"
    /\ tpc = "read"
    /\ \E id \in DOMAIN players :
          LET b == LastFrame(id).body
              t == TailOf(b, TailStart(b, Cardinality(DOMAIN players)))
          IN  /\ \E j \in 1..t.nparts : t.parts[j].id = id /\ t.parts[j].x = 0 /\ t.parts[j].y = 0
              /\ \E j \in 1..t.nparts : t.parts[j].id = id /\ t.parts[j].x = -WorldW
              /\ \E j \in 1..t.nparts : t.parts[j].id # id
              /\ \E j, k \in 1..t.nfoods :
                    /\ t.foods[j].amount = MaxFood
                    /\ t.foods[j].x % 2 = 1 /\ t.foods[j].y % 2 = 1
                    /\ t.foods[k].amount = MaxFood
                    /\ t.foods[k].x = t.foods[j].x - 2 * WorldW
                    /\ t.foods[k].x < 0
              /\ t.nfoods > 4

(* ------------------------------------------------------------------ *)
(* C34: the tail trim                                                  *)
(* ------------------------------------------------------------------ *)

\* the least of two numbers
Least(a, b) == IF a <= b THEN a ELSE b

\* length(score) as the document has it: calc_length with a lower clamp
ClampedLength(score) == IF calc_length(score) < 3 THEN 3 ELSE calc_length(score)

\* C34: every snake in the registry has at least 3 parts in every state;
\* after the first loop of move_snakes a snake has its score after the burn
\* and the last min(len, 3 + calc_length(score)) of the len parts it had,
\* however many parts that takes away, which is at most 3 + length(score)
\* parts and at least 3; the snake table is 0 at every part taken away
C34_TailTrim ==
    /\ \A id \in DOMAIN players : Len(players[id].parts) >= 3
    /\ last.op = "move" =>
          \A id \in DOMAIN last.pre :
              LET old == last.pre[id].parts
                  new == last.mid.P[id].parts
                  n == Len(old) - Len(new)
              IN  /\ Len(new) = Least(Len(old), 3 + calc_length(last.mid.P[id].score))
                  /\ Len(new) <= 3 + ClampedLength(last.mid.P[id].score)
                  /\ Len(new) >= 3
                  /\ new = SubSeq(old, n + 1, Len(old))
                  /\ \A i \in 1..n : At(last.mid.S, sfield_index(old[i])) = 0

\* a snake in fast mode whose burn took its score to a square lost two
\* parts in one tail trim
C34_Witness ==
    /\ last.op = "move"
    /\ \E id \in DOMAIN last.pre :
          /\ last.pre[id].fast_mode
          /\ last.mid.P[id].score = last.pre[id].score - 1
          /\ Len(last.pre[id].parts) - Len(last.mid.P[id].parts) = 2
          /\ Len(last.mid.P[id].parts) = 3 + calc_length(last.mid.P[id].score)

(* ------------------------------------------------------------------ *)
(* C35: conservation of food                                           *)
(* ------------------------------------------------------------------ *)

\* the scores of the snakes in the registry, added up
ScoreSum == SumOver(DOMAIN players, [id \in DOMAIN players |-> players[id].score])

\* the amounts of the food table, added up
FoodSum == SumOver(DOMAIN foods, foods)

\* C35: once the food is generated, the food in the world and the scores of
\* the snakes in the registry add up to amount_of_foods in every state
\* between two operations
C35_FoodConservation ==
    tpc # "gen" => FoodSum + ScoreSum = amount_of_foods

\* a snake with a score crashed in a movement that completed, and its score
\* is food in the world again
C35_Witness ==
    /\ last.op = "move"
    /\ tpc = "send"
    /\ \E i \in 1..Len(last.deaths) :
          /\ last.deaths[i].cause = "crash"
          /\ last.deaths[i].score > 0
          /\ FoodSum >= TotalFood(last.preF) + last.deaths[i].score

(* ------------------------------------------------------------------ *)
(* C36: no wait for a mutex that lasts forever                         *)
(* ------------------------------------------------------------------ *)

\* thread t is blocked in Mutex::lock
Waits(t) == NextOp(t)[1] = "lock" /\ last.owner[NextOp(t)[2]] # ""

\* the thread that holds the mutex thread t is blocked on
Blocker(t) == last.owner[NextOp(t)[2]]

\* C36: there is no set of threads each of which is blocked on a mutex held
\* by a thread of the set, a thread that tries to lock a mutex it holds
\* included; a thread that ended or panicked holds no mutex; and a thread
\* that locks client_streams or world holds players, so that players
\* orders every use of the other two
C36_NoLockCycle ==
    last.op = "locks" =>
        /\ \A W \in (SUBSET LockThreads) \ {{}} :
              ~(\A t \in W : Waits(t) /\ Blocker(t) \in W)
        /\ \A m \in Mutexes :
              last.owner[m] # "" => last.todo[last.owner[m]] # <<>>
        /\ \A m \in {"world", "client_streams"} :
              last.owner[m] # "" => last.owner["players"] = last.owner[m]

\* the main thread holds players, client_streams and world in its drain
\* while the three other threads are blocked on players, one of them for
\* the second time
C36_Witness ==
    /\ last.op = "locks"
    /\ \A m \in Mutexes : last.owner[m] = "main"
    /\ last.phase = "move"
    /\ \A t \in LockThreads \ {"main"} : Waits(t) /\ Blocker(t) = "main"
    /\ Len(last.todo["status"]) = 2

(* ------------------------------------------------------------------ *)
(* C37: the registry and the stream table                              *)
(* ------------------------------------------------------------------ *)

\* the registry and the stream table have the same ids
SameKeys == DOMAIN players = DOMAIN client_streams

\* C37: in every state between two critical sections of the players lock
\* the registry and the stream table have the same ids, and no lookup by id
\* of the tick engine has failed: the unwrap of a failed lookup is what
\* stops the main thread
C37_RegistryConsistency ==
    /\ SameKeys
    /\ tpc # "panicked"

(* ------------------------------------------------------------------ *)
(* C38: handshakes that fail                                           *)
(* ------------------------------------------------------------------ *)

\* C38: a step of handle_new_connection that registers no snake, because
\* the first frame could not be read, was empty, had an unknown opcode or a
\* bad nickname, because the server was full or no place was found for the
\* snake, or because the frame asked for the server status, leaves the
\* registry, the stream table, the snake table and the food table as they
\* were
C38_FailedHandshake ==
    [][ \A c \in Clients :
            (Handshakes(c) /\ hs'[c] # "inserted") =>
                /\ players' = players
                /\ client_streams' = client_streams
                /\ snake_parts' = snake_parts
                /\ foods' = foods
      ]_vars

\* the first frame of one connection was cut short after its length byte;
\* the request of the other was refused because no place was found for its
\* snake; the snake of StairLen + 1 parts is alone in the game as before
C38_Witness ==
    \E c, d \in Clients :
        /\ hs[c] = "closed" /\ closed[c] /\ request[c] = <<>>
        /\ sent_frames[c] # <<>> /\ Len(sent_frames[c][1]) = 1
        /\ hs[d] = "closed"
        /\ request[d] = <<MAGIC_NET_REQUEST_TO_PLAY>> \o Nickname(d)
        /\ out[d] = <<Frame(MAGIC_NET_ERROR, "not enough space in world. try again")>>
        /\ players = Alone(StairPlayer(StairLen + 1))
        /\ snake_parts = StampAll(players)
        /\ DOMAIN client_streams = {1}

(* ------------------------------------------------------------------ *)
(* C39: the length of GAME_DATA and its prefix                         *)
(* ------------------------------------------------------------------ *)

\* the frames of a broadcast have the length game_data_len gives for the
\* registry and the records of the view
FrameLenAgrees ==
    (last.op = "send" /\ tpc = "read" /\ FrameMode(scn) = "all") =>
        \A id \in DOMAIN players :
            LET b == LastFrame(id).body
                t == TailOf(b, TailStart(b, Cardinality(DOMAIN players)))
            IN  1 + Len(b) = game_data_len(Cardinality(DOMAIN players), Len(Nickname(id)),
                                           t.nfoods, t.nparts)

\* C39: the bytes of a GAME_DATA frame handed to send_to_stream are at most
\* 65535, and the two bytes written before them are their number
C39_LengthFitsPrefix ==
    last.op = "game_data" =>
        /\ last.len <= MaxU16
        /\ U16At(last.size, 1) = last.len

(* ------------------------------------------------------------------ *)
(* C40: the bot's reading of its fast mode                             *)
(* ------------------------------------------------------------------ *)

\* C40: the in_fast_mode the bot reads from a GAME_DATA frame is the
\* fast_mode of its own snake in the registry the frame was built from
C40_BotFastMode ==
    last.op = "parsed" => last.in_fast_mode = last.P[last.my_id].fast_mode

====
